---- MODULE Spec2Model ----
(***************************************************************************)
(* ch_sync: replication of ClickHouse tables from a source database to a   *)
(* target database.  The module models                                     *)
(*   - the per-table sync engine (UniversalSyncer) with its deduplicator   *)
(*     and the checkpoint document of the StateManager, against a source   *)
(*     that receives writes and may fail over, and a process that may      *)
(*     crash and restart (specifications Spec and FairSpec);               *)
(*   - the coordinator that runs one worker per enabled table under a      *)
(*     counting semaphore (specifications CoordSpec and FairCoordSpec,     *)
(*     and SchemaSpec for tables that lack configured columns);            *)
(*   - the supervisor loop of main with its signal channel and its timer   *)
(*     (specification SuperSpec);                                          *)
(*   - the StateManager's mutex and its write-then-rename persistence      *)
(*     under concurrent workers, failing writes and crashes                *)
(*     (specification StoreSpec);                                          *)
(*   - the read loop of syncSegment and fullSync with its batch buffer     *)
(*     and the transaction of insertBatch (specification BatchSpec);       *)
(*   - the segment planner segmentTimeRange over bounded windows           *)
(*     (specification PlanSpec);                                           *)
(*   - the engine over instants around the realtime window                 *)
(*     (specification WindowSpec);                                         *)
(*   - the text of the dedup keys of two rows (specification KeySpec).     *)
(* Instants are milliseconds since 00:00:00 UTC of the model's day 0.      *)
(***************************************************************************)
EXTENDS Integers, Sequences, FiniteSets

VARIABLES
    rowTime,        \* engine: time column of each potential row, by row id
    rowDate,        \* engine: class of the DateTime dedup column of each row
    source,         \* engine: ids of the rows the source table holds
    target,         \* engine: copies in the target table of each row id
    completed,      \* engine: the table's CompletedSegments in the state file
    pc,             \* engine: position of the table's invocation
    needCatchup,    \* engine: local of SyncWithRealtimeMode
    maxTimeTarget,  \* engine: local of SyncWithRealtimeMode (NoTime: NULL)
    maxTimeSource,  \* engine: local of SyncWithRealtimeMode (NoTime: NULL)
    skipCheckpoint, \* engine: UniversalSyncer.skipCheckpoint
    timeRange,      \* engine: the window incrementalSync resolved
    segIdx,         \* engine: loop index of incrementalSync (1-based)
    segment,        \* engine: the segment syncSegment works on
    existingKeys,   \* engine: local of syncSegment
    rows,           \* engine: rows the source query of syncSegment has yet to yield
    lastResult,     \* engine: what the last invocation returned
    h_catchupFailed, \* history: the last return was the error of a catch-up segment
    h_countZero,    \* history: the last return was that of a realtime count of zero
    failovers,      \* engine: source failovers so far
    h_scanned,      \* history: row ids the source query of the segment returned
    h_skipped,      \* history: segments the running catch-up skipped
    h_restarted,    \* history: the invocation is the first after a restart
    h_quiet,        \* history: the source did not change during the invocation
    h_rtCase,       \* history: the window case realtimeIncrementalSync took
    h_rtTarget,     \* history: target max probed by realtimeIncrementalSync
    h_rtSource,     \* history: source max probed by realtimeIncrementalSync
    h_failoverMax,  \* history: target max when a failover was last detected
    enabled,        \* coordinator: the tables the configuration enables
    coordPc,        \* coordinator: position of SyncAllTablesWithSmartMode
    wpc,            \* coordinator: position of each table's worker goroutine
    semaphore,      \* coordinator: tokens in the semaphore channel
    errChan,        \* coordinator: tables whose error is in the error channel
    status,         \* coordinator: TableState.Status of each table
    wresult,        \* coordinator: what each table's run returned
    werr,           \* coordinator: the error each table's worker logged and sent
    runResult,      \* coordinator: what the last SyncAllTablesWithSmartMode returned
    runError,       \* coordinator: the error value of the last return (NoError: nil)
    h_failedBefore, \* history: workers that acquired after a sibling had failed
    srcMissing,     \* schema: configured columns the source table of each table lacks
    tgtMissing,     \* schema: configured columns the target table of each table lacks
    dedupRowA,      \* keys: the dedup-column values of one row
    dedupRowB,      \* keys: the dedup-column values of another row
    dedupKeyA,      \* keys: the key buildKeyFromValues built of the first
    dedupKeyB,      \* keys: the key buildKeyFromValues built of the second
    keyPc,          \* keys: whether the keys have been built
    loopInterval,   \* supervisor: the --loop-interval flag, in seconds
    supPc,          \* supervisor: position of main in its loop
    sigChan,        \* supervisor: signals buffered in sigChan (capacity 1)
    signals,        \* supervisor: INT/TERM signals delivered so far
    cycleCount,     \* supervisor: cycleCount of main
    segsLeft,       \* supervisor: segments and windows the running cycle has yet to start
    lastOutcome,    \* supervisor: what the last cycle returned
    reports,        \* supervisor: calls of PrintFinalReport so far
    h_sigInCycle,   \* history: a signal was delivered while the cycle was running
    h_startedAfterSignal, \* history: the cycle started a segment after such a signal
    clearState,     \* store: the --clear-state flag
    resume,         \* store: the --resume flag (config.Sync.Resume)
    mem,            \* store: StateManager.state, the in-memory document
    file,           \* store: what is at the path of the state file
    tmp,            \* store: what is at the path of the state file + ".tmp"
    mu,             \* store: the holders of StateManager.mu (none or one)
    tpc,            \* store: position of each thread in its call of the StateManager
    wop,            \* store: the call each thread makes or made last
    data,           \* store: local of saveStateUnlocked, the marshalled document
    ioFailures,     \* store: failed writes and renames so far
    crashes,        \* store: crashes of the process so far
    h_saveFailed,   \* history: a save of the thread failed since the process started
    h_lastRenamed,  \* history: the document of the last rename over the state file
    mode,           \* rows: the effective mode of the table (GetEffectiveMode)
    entry,          \* rows: the coordinator method that runs the table
    bpc,            \* rows: position of the table's run in its read loop
    strategy,       \* rows: the loop that runs, fullSync or syncSegment
    batchBuf,       \* rows: local batch of the read loop
    tx,             \* rows: records executed in the open transaction of insertBatch
    final,          \* rows: insertBatch was called for the remaining rows (step 5)
    totalInserted,  \* rows: local totalInserted of the read loop
    bResult,        \* rows: what the table's run returned
    dbFailures,     \* rows: failed database calls so far
    runs,           \* rows: runs of the table started so far
    h_appended,     \* history: rows the running loop appended to its batch
    h_flushes,      \* history: calls of insertBatch for the remaining rows in the run
    h_committed,    \* history: rows the running loop committed
    h_partial,      \* history: rows committed by a syncSegment before its insertBatch failed
    planRange,      \* planner: the TimeRange passed to segmentTimeRange
    planDaily,      \* planner: sync.daily_segmentation of the call
    planSegments,   \* planner: the segments segmentTimeRange returned
    planPc          \* planner: whether segmentTimeRange has returned

engineVars == <<rowTime, rowDate, source, target, completed, pc, needCatchup,
          maxTimeTarget, maxTimeSource, skipCheckpoint, timeRange, segIdx,
          segment, existingKeys, rows, lastResult, h_catchupFailed, h_countZero, failovers,
          h_scanned, h_skipped, h_restarted, h_quiet,
          h_rtCase, h_rtTarget, h_rtSource, h_failoverMax>>

coordVars == <<enabled, coordPc, wpc, semaphore, errChan, status, wresult, werr,
               runResult, runError, h_failedBefore>>

superVars == <<loopInterval, supPc, sigChan, signals, cycleCount, segsLeft,
               lastOutcome, reports, h_sigInCycle, h_startedAfterSignal>>

storeVars == <<clearState, resume, mem, file, tmp, mu, tpc, wop, data, ioFailures,
               crashes, h_saveFailed, h_lastRenamed>>

batchVars == <<mode, entry, bpc, strategy, batchBuf, tx, final, totalInserted,
               bResult, dbFailures, runs, h_appended, h_flushes, h_committed,
               h_partial>>

planVars == <<planRange, planDaily, planSegments, planPc>>

schemaVars == <<srcMissing, tgtMissing>>

keyVars == <<dedupRowA, dedupRowB, dedupKeyA, dedupKeyB, keyPc>>

vars == <<engineVars, coordVars, superVars, storeVars, batchVars, planVars, schemaVars, keyVars>>

\* What an action of the engine, and of the coordinator, leaves alone.
notEngine == <<coordVars, superVars, storeVars, batchVars, planVars,
              schemaVars, keyVars>>
notCoord == <<engineVars, superVars, storeVars, batchVars, planVars,
              schemaVars, keyVars>>
notSuper == <<engineVars, coordVars, storeVars, batchVars, planVars,
              schemaVars, keyVars>>
notStore == <<engineVars, coordVars, superVars, batchVars, planVars,
              schemaVars, keyVars>>

\* The variables of the engine the read loop does not write, and what an
\* action of the read loop leaves alone.
engineRest == <<rowTime, rowDate, source, pc, needCatchup, maxTimeTarget,
                maxTimeSource, timeRange, segIdx, lastResult, h_catchupFailed, h_countZero, failovers,
                h_scanned, h_skipped, h_restarted, h_quiet, h_rtCase, h_rtTarget,
                h_rtSource, h_failoverMax>>
notBatch == <<engineRest, coordVars, superVars, storeVars, planVars,
              schemaVars, keyVars>>
notPlan == <<engineVars, coordVars, superVars, storeVars, batchVars,
              schemaVars, keyVars>>
notKey == <<engineVars, coordVars, superVars, storeVars, batchVars, planVars,
            schemaVars>>

----------------------------------------------------------------------------
(* Bounds of the model and constants of the program *)

NumKeys == 4            \* row ids (dedup column "id") of the model's table
MaxRows == 3            \* row ids in use under the specification Spec
MaxCopies == 2          \* copies of one row the target counts (saturating)
MaxFailovers == 1       \* source failovers in one behaviour
BatchSize == 2          \* sync.batch_size of the model's configuration
FallbackDays == 3       \* time_range.fallback_days of the model's configuration
NumTables == 3          \* tables of the configuration under CoordSpec
MaxConcurrency == 2     \* sync.max_concurrency under CoordSpec
MaxCycles == 3          \* cycles of the supervisor loop under SuperSpec
MaxSegments == 2        \* segments and windows of one cycle under SuperSpec
MaxSignals == 2         \* signals delivered under SuperSpec
NumWorkers == 2         \* table workers that use the StateManager under StoreSpec
MaxStoreSegs == 2       \* segments each worker marks under StoreSpec
MaxIoFailures == 1      \* failed writes and renames under StoreSpec
MaxCrashes == 1         \* crashes of the process under StoreSpec
MaxRuns == 2            \* runs of the table under BatchSpec
MaxDbFailures == 1      \* failed database calls under BatchSpec
MaxStringLen == 2       \* characters of a dedup-column string under KeySpec
NumDedupColumns == 2    \* dedupe_keys of the table under KeySpec

OneMs == 1
OneSecond == 1000
FiveSeconds == 5000
BackwardWindow == 300000
RealtimeThreshold == 300000
Day == 86400000
NoTime == -1
MinValidTime == -2147483647

Keys == 1..NumKeys
Tables == 1..NumTables

\* The model's configuration: time_range.auto_detect, time_range.start,
\* time_range.end, sync.daily_segmentation.
AutoDetect == TRUE
ConfigStart == NoTime
ConfigEnd == NoTime
DailySegmentation == TRUE

\* Noon of day 2, and the reading of the wall clock (time.Now()).
Noon2 == 2 * Day + 12 * 3600 * OneSecond
Now == Noon2 + 10 * OneSecond

\* The instants the time column of a row may hold.
TimePoints == {Noon2 - 2 * Day, Noon2 - Day, Noon2 - BackwardWindow, Noon2}
\* The values of the time column under the specification WindowSpec: one
\* before the fallback start of determineTimeRange, one before and one at
\* the start of the realtime window of an empty target, one within it, and
\* one that fails the validity predicate of the probes (a day after now).
WindowTimePoints == {Noon2 - 4 * Day, Noon2 - BackwardWindow,
                     Now - BackwardWindow, Noon2, Now + Day}
\* The values of the time column under the specification FairSpec.
FairTimePoints == {Noon2 - BackwardWindow, Noon2, Noon2 + OneSecond}

\* Classes of a DateTime value: within [1900-01-01, 2262-04-11], beyond it,
\* and 1970-01-01T00:00:00Z.
DateClasses == {"in", "far"}

----------------------------------------------------------------------------
(* The two tables and their probes *)

MaxOf(S) == IF S = {} THEN NoTime ELSE CHOOSE x \in S : \A y \in S : y <= x

MinOf(S) == IF S = {} THEN NoTime ELSE CHOOSE x \in S : \A y \in S : x <= y

Least(a, b) == IF a <= b THEN a ELSE b

\* Row ids of which the target holds at least one copy.
TargetRows == {k \in Keys : target[k] > 0}

\* SELECT MAX(time_field) FROM table, on the source and on the target.
SourceMax == MaxOf({rowTime[k] : k \in source})

SourceMin == MinOf({rowTime[k] : k \in source})

TargetMax == MaxOf({rowTime[k] : k \in TargetRows})

\* maxTime.Valid && maxTime.Time.After(minValidTime) && maxTime.Time.Before(limit)
TimeValid(t, limit) == t # NoTime /\ t > MinValidTime /\ t < limit

\* A segment is a pair <<Start, End>>; the queries of syncSegment and of
\* FetchExistingKeys select time_field >= Start AND time_field < End.
InSegment(t, seg) == seg[1] <= t /\ t < seg[2]

NoSegment == <<NoTime, NoTime>>

----------------------------------------------------------------------------
(* Deduplicator *)

\* The DateTime branch of insertBatch: a value outside the range is replaced
\* by 1970-01-01T00:00:00Z.
CoerceDateTime(c) == IF c = "far" THEN "epoch" ELSE c

\* BuildKey of a row scanned from the source: its dedup columns (id, date).
BuildKey(k) == <<k, rowDate[k]>>

\* BuildKey of the copy of row k as the target stores it.
StoredKey(k) == <<k, CoerceDateTime(rowDate[k])>>

FetchExistingKeys(seg) ==
    {StoredKey(k) : k \in {j \in TargetRows : InSegment(rowTime[j], seg)}}

----------------------------------------------------------------------------
(* StateManager *)

\* Variant: the lookup never matches a recorded segment.
IsSegmentCompletedNever(seg) == seg \in {}

IsSegmentCompleted(seg) == seg \in completed

----------------------------------------------------------------------------
(* UniversalSyncer: pure parts *)

\* Step 2 of SyncWithRealtimeMode.
\* Variant: a lag equal to the threshold already asks for catch-up.
NeedCatchupAtThreshold(mt, ms) ==
    LET targetTimeValid == TimeValid(mt, Now + Day)
        sourceTimeValid == TimeValid(ms, Now + Day)
    IN  IF ~targetTimeValid THEN sourceTimeValid
        ELSE sourceTimeValid /\ ms - mt >= RealtimeThreshold

NeedCatchup(mt, ms) ==
    LET targetTimeValid == TimeValid(mt, Now + Day)
        sourceTimeValid == TimeValid(ms, Now + Day)
    IN  IF ~targetTimeValid THEN sourceTimeValid
        ELSE sourceTimeValid /\ ms - mt > RealtimeThreshold

\* SyncWithRealtimeMode returns ErrSourceTableEmpty right after the probes.
\* Variant: only NULL maxima count as empty, whatever their validity.
ProbeEmptyNullOnly(mt, ms) == mt = NoTime /\ ms = NoTime

ProbeEmpty(mt, ms) == ~TimeValid(mt, Now + Day) /\ ~TimeValid(ms, Now + Day)

\* determineTimeRange: [err, start, end].
determineTimeRange ==
    LET endOk == ConfigEnd # NoTime \/ TimeValid(SourceMax, Now + Day)
        endTime == IF ConfigEnd # NoTime THEN ConfigEnd ELSE SourceMax + OneSecond
        fallbackTime == Now - FallbackDays * Day
    IN  IF ~endOk THEN [err |-> "empty", start |-> NoTime, end |-> NoTime]
        ELSE IF AutoDetect
        THEN IF TimeValid(TargetMax, endTime + Day)
             THEN [err |-> "none", start |-> TargetMax + OneMs, end |-> endTime]
             ELSE IF SourceMin = NoTime \/ SourceMax = NoTime
             THEN [err |-> "empty", start |-> NoTime, end |-> NoTime]
             ELSE IF SourceMin > fallbackTime
             THEN [err |-> "none", start |-> SourceMin, end |-> endTime]
             ELSE [err |-> "none", start |-> fallbackTime, end |-> endTime]
        ELSE IF ConfigStart # NoTime
        THEN [err |-> "none", start |-> ConfigStart, end |-> endTime]
        ELSE [err |-> "none", start |-> Now - 30 * Day, end |-> endTime]

\* The next midnight after t, in UTC.
NextMidnight(t) == (t \div Day + 1) * Day

RECURSIVE DailySegments(_, _)
\* Variant: the end of the day is not cut at the end of the range.
DailySegmentsUncut(current, end) ==
    IF ~(current < end) THEN <<>>
    ELSE <<(<<current, NextMidnight(current)>>)>>
             \o DailySegments(NextMidnight(current), end)

\* The loop of segmentTimeRange.
DailySegments(current, end) ==
    IF ~(current < end) THEN <<>>
    ELSE LET dayEnd == Least(NextMidnight(current), end)
         IN  <<(<<current, dayEnd>>)>> \o DailySegments(dayEnd, end)

\* segmentTimeRange under a configuration with sync.daily_segmentation = daily.
SegmentPlan(daily, r) ==
    IF ~daily THEN <<(<<r[1], r[2]>>)>>
    ELSE DailySegments(r[1], r[2])

\* segmentTimeRange
segmentTimeRange(r) == SegmentPlan(DailySegmentation, r)

\* The rows of S in ascending order of the time column (ORDER BY time_field).
RECURSIVE OrderByTime(_)
OrderByTime(S) ==
    IF S = {} THEN <<>>
    ELSE LET k == CHOOSE x \in S : \A y \in S :
                      rowTime[x] < rowTime[y] \/ (rowTime[x] = rowTime[y] /\ x <= y)
         IN  <<k>> \o OrderByTime(S \ {k})

\* SELECT ... FROM source WHERE time_field >= Start AND time_field < End ORDER BY time_field
SourceQuery(seg) == OrderByTime({k \in source : InSegment(rowTime[k], seg)})

\* The read loop of syncSegment up to its next insertBatch: rows whose key is
\* in existing are skipped, the others fill the batch until it holds BatchSize
\* rows or the rows are exhausted.
RECURSIVE ReadBatch(_, _, _)
ReadBatch(stream, existing, batch) ==
    IF stream = <<>> THEN [batch |-> batch, rest |-> <<>>]
    ELSE IF BuildKey(Head(stream)) \in existing
    THEN ReadBatch(Tail(stream), existing, batch)
    ELSE IF Len(batch) + 1 >= BatchSize
    THEN [batch |-> Append(batch, Head(stream)), rest |-> Tail(stream)]
    ELSE ReadBatch(Tail(stream), existing, Append(batch, Head(stream)))

SeqRange(s) == {s[i] : i \in 1..Len(s)}

\* insertBatch, committed: one more copy of every row of the batch.
insertBatch(batch) ==
    [k \in Keys |-> IF k \in SeqRange(batch)
                    THEN Least(target[k] + 1, MaxCopies) ELSE target[k]]

\* The window of realtimeIncrementalSync: [case, start, end].
\* Variant: the window of a regressed source ends at the source max itself,
\* without the second added to include it.
realtimeWindowNoGrace(mt, ms) ==
    LET targetTimeValid == TimeValid(mt, Now + Day)
        sourceTimeValid == TimeValid(ms, Now + Day)
    IN  IF ~targetTimeValid
        THEN IF ~sourceTimeValid
             THEN [case |-> "none", start |-> NoTime, end |-> NoTime]
             ELSE [case |-> "empty_target", start |-> Now - BackwardWindow, end |-> ms]
        ELSE IF ~sourceTimeValid
        THEN [case |-> "none", start |-> NoTime, end |-> NoTime]
        ELSE IF ms < mt
        THEN [case |-> "failover", start |-> mt - BackwardWindow, end |-> ms]
        ELSE [case |-> "normal", start |-> mt - FiveSeconds, end |-> ms + OneSecond]

realtimeWindow(mt, ms) ==
    LET targetTimeValid == TimeValid(mt, Now + Day)
        sourceTimeValid == TimeValid(ms, Now + Day)
    IN  IF ~targetTimeValid
        THEN IF ~sourceTimeValid
             THEN [case |-> "none", start |-> NoTime, end |-> NoTime]
             ELSE [case |-> "empty_target", start |-> Now - BackwardWindow, end |-> ms]
        ELSE IF ~sourceTimeValid
        THEN [case |-> "none", start |-> NoTime, end |-> NoTime]
        ELSE IF ms < mt
        THEN [case |-> "failover", start |-> mt - BackwardWindow, end |-> ms + OneSecond]
        ELSE [case |-> "normal", start |-> mt - FiveSeconds, end |-> ms + OneSecond]

\* SELECT COUNT(*) FROM source WHERE time_field >= start AND time_field <= end
CountRange(start, end) ==
    Cardinality({k \in source : start <= rowTime[k] /\ rowTime[k] <= end})

----------------------------------------------------------------------------
(* UniversalSyncer: the invocation of one table, step by step *)

tables == <<rowTime, rowDate, source, target>>
probeLocals == <<needCatchup, maxTimeTarget, maxTimeSource>>
catchupLocals == <<timeRange, segIdx, h_skipped>>
segmentLocals == <<segment, existingKeys, rows, h_scanned>>
realtimeLocals == <<h_rtCase, h_rtTarget, h_rtSource>>

\* The locals of an invocation that is not running.
LocalsCleared ==
    /\ needCatchup' = FALSE
    /\ maxTimeTarget' = NoTime
    /\ maxTimeSource' = NoTime
    /\ skipCheckpoint' = FALSE
    /\ timeRange' = NoSegment
    /\ segIdx' = 0
    /\ segment' = NoSegment
    /\ existingKeys' = {}
    /\ rows' = <<>>
    /\ h_scanned' = {}
    /\ h_skipped' = 0
    /\ h_quiet' = TRUE
    /\ h_rtCase' = "none"
    /\ h_rtTarget' = NoTime
    /\ h_rtSource' = NoTime

\* The invocation returns to the coordinator's worker.
Return(result) ==
    /\ pc' = "idle"
    /\ lastResult' = result
    /\ h_catchupFailed' = (result = "error" /\ pc = "stream" /\ ~skipCheckpoint)
    /\ h_countZero' = /\ result = "ok"
                      /\ pc = "realtime"
                      /\ realtimeWindow(TargetMax, SourceMax).case # "none"
    /\ h_restarted' = FALSE
    /\ LocalsCleared

\* SyncWithRealtimeMode, steps 1 and 2: the two MAX probes and the choice.
SyncWithRealtimeMode ==
    /\ pc = "idle"
    /\ LET mt == TargetMax
           ms == SourceMax
       IN  IF ProbeEmpty(mt, ms)
           THEN /\ Return("empty")
                /\ UNCHANGED <<tables, completed, failovers, h_failoverMax>>
           ELSE /\ maxTimeTarget' = mt
                /\ maxTimeSource' = ms
                /\ needCatchup' = NeedCatchup(mt, ms)
                /\ pc' = IF NeedCatchup(mt, ms) THEN "catchup" ELSE "realtime"
                /\ skipCheckpoint' = ~NeedCatchup(mt, ms)
                /\ lastResult' = "running"
                /\ h_catchupFailed' = FALSE
                /\ h_countZero' = FALSE
                /\ UNCHANGED <<tables, completed, failovers, h_failoverMax, catchupLocals,
                               segmentLocals, realtimeLocals, h_restarted, h_quiet>>
    /\ UNCHANGED notEngine

\* incrementalSync, steps 1 and 2: the window and its segments.
incrementalSync ==
    /\ pc = "catchup"
    /\ LET r == determineTimeRange
       IN  IF r.err = "empty"
           THEN /\ Return("empty")
                /\ UNCHANGED <<tables, completed, failovers, h_failoverMax>>
           ELSE /\ maxTimeTarget' = NoTime
                /\ maxTimeSource' = NoTime
                /\ IF ~(r.start < r.end)
                   THEN /\ pc' = "realtime"
                        /\ skipCheckpoint' = TRUE
                        /\ UNCHANGED <<timeRange, segIdx>>
                   ELSE /\ timeRange' = <<r.start, r.end>>
                        /\ segIdx' = 1
                        /\ pc' = "segments"
                        /\ UNCHANGED skipCheckpoint
                /\ UNCHANGED <<tables, completed, failovers, h_failoverMax, needCatchup, h_skipped,
                               segmentLocals, realtimeLocals, lastResult, h_catchupFailed, h_countZero, h_restarted,
                               h_quiet>>
    /\ UNCHANGED notEngine

Segments == segmentTimeRange(timeRange)

\* incrementalSync, step 3: a segment the checkpoint records is skipped.
SkipSegment ==
    /\ pc = "segments"
    /\ segIdx <= Len(Segments)
    /\ ~skipCheckpoint /\ IsSegmentCompleted(Segments[segIdx])
    /\ segIdx' = segIdx + 1
    /\ h_skipped' = h_skipped + 1
    /\ UNCHANGED <<tables, completed, failovers, h_failoverMax, probeLocals, skipCheckpoint, timeRange,
                   segmentLocals, realtimeLocals, lastResult, h_catchupFailed, h_countZero, h_restarted, h_quiet, pc>>
    /\ UNCHANGED notEngine

\* syncSegment, steps 1 to 3: the existing keys of the target and the source query.
syncSegment(seg) ==
    /\ segment' = seg
    /\ existingKeys' = FetchExistingKeys(seg)
    /\ \E q \in {SourceQuery(seg)} :
          /\ rows' = q
          /\ h_scanned' = SeqRange(q)
    /\ pc' = "stream"

\* incrementalSync, step 3: syncSegment on the next segment of the window.
CatchupSegment ==
    /\ pc = "segments"
    /\ segIdx <= Len(Segments)
    /\ ~(~skipCheckpoint /\ IsSegmentCompleted(Segments[segIdx]))
    /\ \E seg \in {Segments[segIdx]} : syncSegment(seg)
    /\ UNCHANGED <<tables, completed, failovers, h_failoverMax, probeLocals, skipCheckpoint,
                   catchupLocals, realtimeLocals, lastResult, h_catchupFailed, h_countZero, h_restarted, h_quiet>>
    /\ UNCHANGED notEngine

\* syncSegment, steps 4 and 5: read up to the next batch and insert it; after
\* the last row syncSegment returns.
StreamBatch ==
    /\ pc = "stream"
    /\ LET b == ReadBatch(rows, existingKeys, <<>>)
       IN  /\ target' = insertBatch(b.batch)
           /\ rows' = b.rest
           /\ pc' = IF b.rest = <<>> THEN "synced" ELSE "stream"
    /\ UNCHANGED <<rowTime, rowDate, source, completed, failovers, h_failoverMax, probeLocals,
                   skipCheckpoint, catchupLocals, segment, existingKeys, h_scanned,
                   realtimeLocals, lastResult, h_catchupFailed, h_countZero, h_restarted, h_quiet>>
    /\ UNCHANGED notEngine

\* MarkSegmentCompleted: the segment is appended and the state is saved.
MarkSegmentCompleted(seg) == completed' = completed \cup {seg}

\* Variant: the segment is recorded once its first batch is in, whatever is
\* left of the source query.
SegmentDoneEarly ==
    /\ pc \in {"stream", "synced"}
    /\ ~skipCheckpoint
    /\ MarkSegmentCompleted(segment)
    /\ segIdx' = segIdx + 1
    /\ pc' = "segments"
    /\ segment' = NoSegment
    /\ existingKeys' = {}
    /\ h_scanned' = {}
    /\ rows' = <<>>
    /\ UNCHANGED <<tables, failovers, h_failoverMax, probeLocals, skipCheckpoint,
                   timeRange, h_skipped, realtimeLocals, lastResult, h_catchupFailed, h_countZero, h_restarted,
                   h_quiet>>
    /\ UNCHANGED notEngine

\* incrementalSync, step 3: the synced segment is recorded.
SegmentDone ==
    /\ pc = "synced"
    /\ ~skipCheckpoint
    /\ MarkSegmentCompleted(segment)
    /\ segIdx' = segIdx + 1
    /\ pc' = "segments"
    /\ segment' = NoSegment
    /\ existingKeys' = {}
    /\ h_scanned' = {}
    /\ UNCHANGED <<tables, failovers, h_failoverMax, probeLocals, skipCheckpoint, timeRange, h_skipped,
                   rows, realtimeLocals, lastResult, h_catchupFailed, h_countZero, h_restarted, h_quiet>>
    /\ UNCHANGED notEngine

\* Variant: the realtime step starts while segments of the plan are left.
CatchupDoneEarly ==
    /\ pc = "segments"
    /\ pc' = "realtime"
    /\ skipCheckpoint' = TRUE
    /\ UNCHANGED <<tables, completed, failovers, h_failoverMax, probeLocals, catchupLocals,
                   segmentLocals, realtimeLocals, lastResult, h_catchupFailed, h_countZero, h_restarted, h_quiet>>
    /\ UNCHANGED notEngine

\* incrementalSync returns nil; SyncWithRealtimeMode, step 3.
CatchupDone ==
    /\ pc = "segments"
    /\ segIdx > Len(Segments)
    /\ pc' = "realtime"
    /\ skipCheckpoint' = TRUE
    /\ UNCHANGED <<tables, completed, failovers, h_failoverMax, probeLocals, catchupLocals,
                   segmentLocals, realtimeLocals, lastResult, h_catchupFailed, h_countZero, h_restarted, h_quiet>>
    /\ UNCHANGED notEngine

\* Variant: the window is synced without the count probe.
realtimeIncrementalSyncUncounted ==
    /\ pc = "realtime"
    /\ \E w \in {realtimeWindow(TargetMax, SourceMax)} :
           IF w.case = "none"
           THEN /\ Return("ok")
                /\ UNCHANGED <<tables, completed, failovers, h_failoverMax>>
           ELSE /\ h_rtCase' = w.case
                /\ h_failoverMax' = IF w.case = "failover" THEN TargetMax
                                                            ELSE h_failoverMax
                /\ h_rtTarget' = TargetMax
                /\ h_rtSource' = SourceMax
                /\ maxTimeTarget' = NoTime
                /\ maxTimeSource' = NoTime
                /\ syncSegment(<<w.start, w.end>>)
                /\ UNCHANGED <<tables, completed, failovers, needCatchup,
                               skipCheckpoint, catchupLocals, lastResult, h_catchupFailed, h_countZero, h_restarted,
                               h_quiet>>
    /\ UNCHANGED notEngine

\* realtimeIncrementalSync up to the count probe.
realtimeIncrementalSync ==
    /\ pc = "realtime"
    /\ \E w \in {realtimeWindow(TargetMax, SourceMax)} :
           IF w.case = "none" \/ CountRange(w.start, w.end) = 0
           THEN /\ Return("ok")
                /\ h_failoverMax' = IF w.case = "failover" THEN TargetMax
                                                            ELSE h_failoverMax
                /\ UNCHANGED <<tables, completed, failovers>>
           ELSE /\ h_rtCase' = w.case
                /\ h_failoverMax' = IF w.case = "failover" THEN TargetMax
                                                            ELSE h_failoverMax
                /\ h_rtTarget' = TargetMax
                /\ h_rtSource' = SourceMax
                /\ maxTimeTarget' = NoTime
                /\ maxTimeSource' = NoTime
                /\ syncSegment(<<w.start, w.end>>)
                /\ UNCHANGED <<tables, completed, failovers, needCatchup,
                               skipCheckpoint, catchupLocals, lastResult, h_catchupFailed, h_countZero, h_restarted,
                               h_quiet>>
    /\ UNCHANGED notEngine

\* Variant: the realtime window is recorded as a completed segment.
RealtimeDoneMarking ==
    /\ pc = "synced"
    /\ skipCheckpoint
    /\ Return("ok")
    /\ MarkSegmentCompleted(segment)
    /\ UNCHANGED <<tables, failovers, h_failoverMax>>
    /\ UNCHANGED notEngine

\* realtimeIncrementalSync returns nil after its syncSegment.
RealtimeDone ==
    /\ pc = "synced"
    /\ skipCheckpoint
    /\ Return("ok")
    /\ UNCHANGED <<tables, completed, failovers, h_failoverMax>>
    /\ UNCHANGED notEngine

\* Variant: the failure of a catch-up segment is logged and the catch-up goes
\* on with the next segment.
DbErrorGoesOn ==
    /\ pc \in {"catchup", "segments", "stream", "realtime"}
    /\ IF pc = "stream" /\ ~skipCheckpoint
       THEN /\ pc' = "segments"
            /\ segIdx' = segIdx + 1
            /\ h_catchupFailed' = TRUE
            /\ segment' = NoSegment
            /\ existingKeys' = {}
            /\ h_scanned' = {}
            /\ rows' = <<>>
            /\ UNCHANGED <<probeLocals, skipCheckpoint, timeRange, h_skipped,
                           realtimeLocals, lastResult, h_countZero, h_restarted, h_quiet>>
       ELSE Return("error")
    /\ UNCHANGED <<tables, completed, failovers, h_failoverMax>>
    /\ UNCHANGED notEngine

\* A query, a scan, an insert or a commit fails: the error is returned up to
\* the worker; a failed insertBatch rolls its batch back.
DbError ==
    /\ pc \in {"catchup", "segments", "stream", "realtime"}
    /\ Return("error")
    /\ UNCHANGED <<tables, completed, failovers, h_failoverMax>>
    /\ UNCHANGED notEngine

\* The process dies and is started again: NewStateManager loads the state file.
Crash ==
    /\ pc # "idle"
    /\ pc' = "idle"
    /\ lastResult' = "crashed"
    /\ h_catchupFailed' = FALSE
    /\ h_countZero' = FALSE
    /\ h_restarted' = TRUE
    /\ LocalsCleared
    /\ UNCHANGED <<tables, completed, failovers, h_failoverMax>>
    /\ UNCHANGED notEngine

----------------------------------------------------------------------------
(* The source database *)

\* The source is read by the probes and by the query of syncSegment; a change
\* of the source commutes with the steps in between, which read only what
\* the query returned.
SourceReadNext == pc \in {"idle", "catchup", "segments", "realtime"}

\* A row is written to the source table: by the application, with a time that
\* is not before the rows the table holds, or, after a failover, by the
\* replication of the new source, with any time.
WriteRow(k) ==
    /\ SourceReadNext
    /\ k \notin source
    /\ rowTime[k] # NoTime
    /\ rowTime[k] >= SourceMax \/ failovers > 0
    /\ source' = source \cup {k}
    /\ h_quiet' = (pc = "idle")
    /\ UNCHANGED <<rowTime, rowDate, target, completed, failovers, h_failoverMax, pc,
                   probeLocals, skipCheckpoint, catchupLocals, segmentLocals,
                   realtimeLocals, lastResult, h_catchupFailed, h_countZero, h_restarted>>
    /\ UNCHANGED notEngine

\* The source is replaced by a replica that lacks some of its rows: between
\* two invocations, or between the probes of SyncWithRealtimeMode and the
\* queries of the catch-up.
Failover ==
    /\ pc \in {"idle", "catchup"}
    /\ failovers < MaxFailovers
    /\ failovers' = failovers + 1
    /\ \E S \in SUBSET source : S # source /\ source' = S
    /\ h_quiet' = (pc = "idle")
    /\ UNCHANGED <<rowTime, rowDate, target, completed, pc, h_failoverMax,
                   probeLocals, skipCheckpoint, catchupLocals, segmentLocals,
                   realtimeLocals, lastResult, h_catchupFailed, h_countZero, h_restarted>>
    /\ UNCHANGED notEngine

----------------------------------------------------------------------------
(* SyncCoordinator: one worker goroutine per enabled table *)

\* An error value: the number it states and the tables its message names.
NoError == [nil |-> TRUE, count |-> 0, names |-> {}]

\* fmt.Errorf("no enabled tables to sync")
NoTablesError == [nil |-> FALSE, count |-> 0, names |-> {}]

\* fmt.Errorf("sync failed for %d tables", len(errors)): the message holds the
\* number of the collected errors and none of their texts.
CompositeError(errors) ==
    [nil |-> FALSE, count |-> Cardinality(errors), names |-> {}]

\* The columns the configuration of a table names: time_field and dedupe_keys.
TimeField == "time"
DedupeKeys == {"id", "date"}
Columns == {TimeField} \cup DedupeKeys

\* Every table has every configured column, in the source and in the target.
SchemasComplete ==
    /\ srcMissing = [t \in Tables |-> {}]
    /\ tgtMissing = [t \in Tables |-> {}]

\* The error of a worker: its kind and the columns its message names.
NoErr == [kind |-> "nil", names |-> {}]

\* NewUniversalSyncer: the schema is detected from the source database, then
\* the time field and the dedup keys are looked up in it.
NewUniversalSyncer(t, detectOk) ==
    IF ~detectOk THEN [kind |-> "detect", names |-> {}]
    ELSE IF TimeField \in srcMissing[t]
    THEN [kind |-> "time_field", names |-> {TimeField}]
    ELSE IF DedupeKeys \cap srcMissing[t] # {}
    THEN [kind |-> "dedup_keys", names |-> DedupeKeys \cap srcMissing[t]]
    ELSE NoErr

\* The error of a run that returned r: the text of a failed query is the
\* one of the database driver, which names the missing columns or does not.
RunErrors(t, r) ==
    IF r = "error"
    THEN {[kind |-> "query", names |-> n] : n \in {{}, tgtMissing[t]}}
    ELSE {NoErr}

\* What SyncWithRealtimeMode can return for table t: its first query is the
\* MAX probe of the time field on the target.
RunResults(t) ==
    IF TimeField \in tgtMissing[t] THEN {"error"} ELSE {"ok", "empty", "error"}

\* The state of the coordinator between two calls of SyncAllTablesWithSmartMode.
CoordIdle ==
    /\ coordPc = "idle"
    /\ wpc = [t \in Tables |-> "none"]
    /\ semaphore = 0
    /\ errChan = {}
    /\ status = [t \in Tables |-> "pending"]
    /\ wresult = [t \in Tables |-> "none"]
    /\ werr = [t \in Tables |-> NoErr]
    /\ runResult = "none"
    /\ runError = NoError
    /\ h_failedBefore = {}

\* SyncAllTablesWithSmartMode up to the creation of the channels.
StartRunAll ==
    /\ coordPc = "idle"
    /\ IF enabled = {}
       THEN /\ runResult' = "no_tables"
            /\ runError' = NoTablesError
            /\ UNCHANGED <<coordPc, wpc, semaphore, errChan, wresult, werr, h_failedBefore>>
       ELSE /\ coordPc' = "spawning"
            /\ wpc' = [t \in Tables |-> "none"]
            /\ semaphore' = 0
            /\ errChan' = {}
            /\ wresult' = [t \in Tables |-> "none"]
            /\ werr' = [t \in Tables |-> NoErr]
            /\ runResult' = "running"
            /\ runError' = NoError
            /\ h_failedBefore' = {}
    /\ UNCHANGED <<enabled, status>>
    /\ UNCHANGED notCoord

\* The loop over enabledTables: wg.Add(1) and the go statement of one table.
Spawn ==
    /\ coordPc = "spawning"
    /\ LET waiting == {t \in enabled : wpc[t] = "none"}
           t == MinOf(waiting)
       IN  /\ wpc' = [wpc EXCEPT ![t] = "waiting"]
           /\ coordPc' = IF waiting = {t} THEN "waiting" ELSE "spawning"
    /\ UNCHANGED <<enabled, semaphore, errChan, status, wresult, werr, runResult, runError,
                   h_failedBefore>>
    /\ UNCHANGED notCoord

\* Variant: the worker goes on without a free slot in the semaphore.
AcquireUnbounded(t) ==
    /\ wpc[t] = "waiting"
    /\ semaphore' = semaphore + 1
    /\ wpc' = [wpc EXCEPT ![t] = "acquired"]
    /\ h_failedBefore' = IF \E u \in Tables : wresult[u] = "error"
                         THEN h_failedBefore \cup {t} ELSE h_failedBefore
    /\ UNCHANGED <<enabled, coordPc, errChan, status, wresult, werr, runResult, runError>>
    /\ UNCHANGED notCoord

\* semaphore <- struct{}{} of the worker of table t.
Acquire(t) ==
    /\ wpc[t] = "waiting"
    /\ semaphore < MaxConcurrency
    /\ semaphore' = semaphore + 1
    /\ wpc' = [wpc EXCEPT ![t] = "acquired"]
    /\ h_failedBefore' = IF \E u \in Tables : wresult[u] = "error"
                         THEN h_failedBefore \cup {t} ELSE h_failedBefore
    /\ UNCHANGED <<enabled, coordPc, errChan, status, wresult, werr, runResult, runError>>
    /\ UNCHANGED notCoord

\* StateManager.MarkTableInProgress.
MarkTableInProgress(t) ==
    /\ wpc[t] = "acquired"
    /\ status' = [status EXCEPT ![t] = "in_progress"]
    /\ wpc' = [wpc EXCEPT ![t] = "constructing"]
    /\ UNCHANGED <<enabled, coordPc, semaphore, errChan, wresult, werr, runResult, runError,
                   h_failedBefore>>
    /\ UNCHANGED notCoord

\* NewUniversalSyncer of the worker: the schema detection may fail, and the
\* configured columns may be missing from the detected schema.
NewSyncer(t) ==
    /\ wpc[t] = "constructing"
    /\ \E detectOk \in BOOLEAN :
          LET err == NewUniversalSyncer(t, detectOk)
          IN  IF err = NoErr
              THEN /\ wpc' = [wpc EXCEPT ![t] = "running"]
                   /\ UNCHANGED <<errChan, wresult, werr>>
              ELSE /\ errChan' = errChan \cup {t}
                   /\ wresult' = [wresult EXCEPT ![t] = "error"]
                   /\ werr' = [werr EXCEPT ![t] = err]
                   /\ wpc' = [wpc EXCEPT ![t] = "exiting"]
    /\ UNCHANGED <<enabled, coordPc, semaphore, status, runResult, runError, h_failedBefore>>
    /\ UNCHANGED notCoord

\* Variant: a failing table makes the workers that still wait give up.
SyncerReturnsCancelling(t, r) ==
    /\ wpc[t] = "running"
    /\ r \in RunResults(t)
    /\ wresult' = [wresult EXCEPT ![t] = r]
    /\ \E e \in RunErrors(t, r) : werr' = [werr EXCEPT ![t] = e]
    /\ errChan' = IF r = "error" THEN errChan \cup {t} ELSE errChan
    /\ status' = IF r = "ok" THEN [status EXCEPT ![t] = "completed"] ELSE status
    /\ wpc' = [u \in Tables |->
                  IF u = t THEN "exiting"
                  ELSE IF r = "error" /\ wpc[u] = "waiting" THEN "done"
                  ELSE wpc[u]]
    /\ UNCHANGED <<enabled, coordPc, semaphore, runResult, runError, h_failedBefore>>
    /\ UNCHANGED notCoord

\* Variant: ErrSourceTableEmpty is sent to the error channel like any error.
SyncerReturnsEmptyAsError(t, r) ==
    /\ wpc[t] = "running"
    /\ r \in RunResults(t)
    /\ wresult' = [wresult EXCEPT ![t] = r]
    /\ \E e \in RunErrors(t, r) : werr' = [werr EXCEPT ![t] = e]
    /\ errChan' = IF r \in {"error", "empty"} THEN errChan \cup {t} ELSE errChan
    /\ status' = IF r = "ok" THEN [status EXCEPT ![t] = "completed"] ELSE status
    /\ wpc' = [wpc EXCEPT ![t] = "exiting"]
    /\ UNCHANGED <<enabled, coordPc, semaphore, runResult, runError, h_failedBefore>>
    /\ UNCHANGED notCoord

\* Variant: a table skipped for its empty source is marked completed.
SyncerReturnsCompletingEmpty(t, r) ==
    /\ wpc[t] = "running"
    /\ r \in RunResults(t)
    /\ wresult' = [wresult EXCEPT ![t] = r]
    /\ \E e \in RunErrors(t, r) : werr' = [werr EXCEPT ![t] = e]
    /\ errChan' = IF r = "error" THEN errChan \cup {t} ELSE errChan
    /\ status' = IF r \in {"ok", "empty"} THEN [status EXCEPT ![t] = "completed"]
                                          ELSE status
    /\ wpc' = [wpc EXCEPT ![t] = "exiting"]
    /\ UNCHANGED <<enabled, coordPc, semaphore, runResult, runError, h_failedBefore>>
    /\ UNCHANGED notCoord

\* SyncWithRealtimeMode of the worker returns r; the worker handles the result.
SyncerReturns(t, r) ==
    /\ wpc[t] = "running"
    /\ r \in RunResults(t)
    /\ wresult' = [wresult EXCEPT ![t] = r]
    /\ \E e \in RunErrors(t, r) : werr' = [werr EXCEPT ![t] = e]
    /\ errChan' = IF r = "error" THEN errChan \cup {t} ELSE errChan
    /\ status' = IF r = "ok" THEN [status EXCEPT ![t] = "completed"] ELSE status
    /\ wpc' = [wpc EXCEPT ![t] = "exiting"]
    /\ UNCHANGED <<enabled, coordPc, semaphore, runResult, runError, h_failedBefore>>
    /\ UNCHANGED notCoord

\* Variant: the worker ends without taking its token back from the semaphore.
ReleaseKeepingSlot(t) ==
    /\ wpc[t] = "exiting"
    /\ wpc' = [wpc EXCEPT ![t] = "done"]
    /\ UNCHANGED <<enabled, coordPc, semaphore, errChan, status, wresult, werr, runResult,
                   runError, h_failedBefore>>
    /\ UNCHANGED notCoord

\* The deferred calls of the worker: <-semaphore, then wg.Done().
Release(t) ==
    /\ wpc[t] = "exiting"
    /\ semaphore' = semaphore - 1
    /\ wpc' = [wpc EXCEPT ![t] = "done"]
    /\ UNCHANGED <<enabled, coordPc, errChan, status, wresult, werr, runResult, runError,
                   h_failedBefore>>
    /\ UNCHANGED notCoord

\* wg.Wait() returns; the error channel is closed and drained.
Collect ==
    /\ coordPc = "waiting"
    /\ \A t \in enabled : wpc[t] = "done"
    /\ runResult' = IF errChan = {} THEN "ok" ELSE "failed"
    /\ runError' = IF errChan = {} THEN NoError ELSE CompositeError(errChan)
    /\ coordPc' = "idle"
    /\ UNCHANGED <<enabled, wpc, semaphore, errChan, status, wresult, werr,
                   h_failedBefore>>
    /\ UNCHANGED notCoord

----------------------------------------------------------------------------
(* main: the supervisor loop and its signal channel *)

\* The values of --loop-interval the model runs with.
LoopIntervals == {0, 10}

\* ctx := context.Background(): the context handed to every cycle is never
\* cancelled, and nothing else tells a running cycle of a signal.
CtxDone == FALSE

\* Whether the channel of time.After(loopInterval) can already be ready when
\* the select polls its cases: never for a positive interval, either way for
\* an interval that has already expired.
TimerReadyAtPoll == IF loopInterval > 0 THEN {FALSE} ELSE BOOLEAN

\* main before the first cycle.
SuperIdle ==
    /\ supPc = "loop"
    /\ sigChan = 0
    /\ signals = 0
    /\ cycleCount = 0
    /\ segsLeft = 0
    /\ lastOutcome = "none"
    /\ reports = 0
    /\ h_sigInCycle = FALSE
    /\ h_startedAfterSignal = FALSE

\* Top of the loop: cycleCount++ and the call of SyncAllTablesWithSmartMode.
StartCycle ==
    /\ supPc = "loop"
    /\ cycleCount < MaxCycles
    /\ cycleCount' = cycleCount + 1
    /\ supPc' = "cycle"
    /\ segsLeft' \in 0..MaxSegments
    /\ h_sigInCycle' = FALSE
    /\ h_startedAfterSignal' = FALSE
    /\ UNCHANGED <<loopInterval, sigChan, signals, lastOutcome, reports>>
    /\ UNCHANGED notSuper

\* The running cycle starts its next segment or realtime window: its first
\* query runs under ctx and fails when ctx is done.
CycleStartsSegment ==
    /\ supPc = "cycle"
    /\ segsLeft > 0
    /\ IF CtxDone
       THEN /\ segsLeft' = 0
            /\ UNCHANGED h_startedAfterSignal
       ELSE /\ segsLeft' = segsLeft - 1
            /\ h_startedAfterSignal' = (h_startedAfterSignal \/ h_sigInCycle)
    /\ UNCHANGED <<loopInterval, supPc, sigChan, signals, cycleCount, lastOutcome,
                   reports, h_sigInCycle>>
    /\ UNCHANGED notSuper

\* Variant: main leaves the loop when the cycle returned an error.
CycleReturnsExitOnError(outcome) ==
    /\ supPc = "cycle"
    /\ outcome = "ok" => segsLeft = 0
    /\ lastOutcome' = outcome
    /\ supPc' = IF outcome = "error" THEN "exited" ELSE "select"
    /\ UNCHANGED <<loopInterval, sigChan, signals, cycleCount, segsLeft, reports,
                   h_sigInCycle, h_startedAfterSignal>>
    /\ UNCHANGED notSuper

\* SyncAllTablesWithSmartMode returns nil or an error; main logs it and goes
\* on to the select.
CycleReturns(outcome) ==
    /\ supPc = "cycle"
    /\ outcome = "ok" => segsLeft = 0
    /\ lastOutcome' = outcome
    /\ supPc' = "select"
    /\ UNCHANGED <<loopInterval, sigChan, signals, cycleCount, segsLeft, reports,
                   h_sigInCycle, h_startedAfterSignal>>
    /\ UNCHANGED notSuper

\* The select polls its two cases: one of the ready cases is taken, and main
\* parks on both channels when none is ready.
SelectPoll ==
    /\ supPc = "select"
    /\ \E timerReady \in TimerReadyAtPoll :
          LET ready == (IF sigChan > 0 THEN {"signal"} ELSE {})
                          \cup (IF timerReady THEN {"timer"} ELSE {})
          IN  IF ready = {}
              THEN supPc' = "parked" /\ UNCHANGED sigChan
              ELSE \E c \in ready :
                      IF c = "signal"
                      THEN supPc' = "signalled" /\ sigChan' = sigChan - 1
                      ELSE supPc' = "loop" /\ UNCHANGED sigChan
    /\ UNCHANGED <<loopInterval, signals, cycleCount, segsLeft, lastOutcome, reports,
                   h_sigInCycle, h_startedAfterSignal>>
    /\ UNCHANGED notSuper

\* The timer of time.After fires while main is parked in the select.
TimerFires ==
    /\ supPc = "parked"
    /\ supPc' = "loop"
    /\ UNCHANGED <<loopInterval, sigChan, signals, cycleCount, segsLeft, lastOutcome,
                   reports, h_sigInCycle, h_startedAfterSignal>>
    /\ UNCHANGED notSuper

\* Variant: sigChan has no buffer, so a signal is dropped unless main waits
\* for it.
SignalUnbuffered ==
    /\ supPc # "exited"
    /\ signals < MaxSignals
    /\ signals' = signals + 1
    /\ supPc' = IF supPc = "parked" THEN "signalled" ELSE supPc
    /\ h_sigInCycle' = (h_sigInCycle \/ supPc = "cycle")
    /\ UNCHANGED <<loopInterval, sigChan, cycleCount, segsLeft, lastOutcome, reports,
                   h_startedAfterSignal>>
    /\ UNCHANGED notSuper

\* INT or TERM is delivered: signal.Notify hands it to main when main is
\* parked in the select, buffers it in sigChan when there is room, and drops
\* it otherwise.
Signal ==
    /\ supPc # "exited"
    /\ signals < MaxSignals
    /\ signals' = signals + 1
    /\ IF supPc = "parked"
       THEN supPc' = "signalled" /\ UNCHANGED sigChan
       ELSE sigChan' = 1 /\ UNCHANGED supPc
    /\ h_sigInCycle' = (h_sigInCycle \/ supPc = "cycle")
    /\ UNCHANGED <<loopInterval, cycleCount, segsLeft, lastOutcome, reports,
                   h_startedAfterSignal>>
    /\ UNCHANGED notSuper

\* The signal case of the select: PrintFinalReport and return.
ExitOnSignal ==
    /\ supPc = "signalled"
    /\ reports' = reports + 1
    /\ supPc' = "exited"
    /\ UNCHANGED <<loopInterval, sigChan, signals, cycleCount, segsLeft, lastOutcome,
                   h_sigInCycle, h_startedAfterSignal>>
    /\ UNCHANGED notSuper

----------------------------------------------------------------------------
(* StateManager: the in-memory document, its mutex and the state file *)

\* The table workers, and the thread of main that runs ClearState.
Workers == 1..NumWorkers
MainThread == 0
Threads == {MainThread} \cup Workers

\* A TableState without entry in SyncState.Tables.
NoTableState == [status |-> "none", segs |-> {}, records |-> 0]

\* The recordCount syncSegment returned for segment seg, which
\* incrementalSync hands to MarkSegmentCompleted.
RecordCount(seg) == seg

\* The SyncState of NewStateManager and of ClearState: a run id and no tables.
FreshState(id) == [runId |-> id, tables |-> [t \in Workers |-> NoTableState]]

\* A state file an earlier run of the program left behind.
OldState ==
    [runId |-> 0,
     tables |-> [t \in Workers |->
                   IF t = 1 THEN [status |-> "in_progress", segs |-> {1},
                                  records |-> RecordCount(1)]
                   ELSE NoTableState]]

\* What a path of the file system holds: nothing, a complete document, or
\* the beginning of a document.
AbsentFile == [kind |-> "absent"]
PartialFile == [kind |-> "partial"]

\* A TimeSegment in the document: start and end, as the texts time.Time
\* marshals to; the segments of a table follow one another.
TimeSegment(seg) == [start |-> seg - 1, end |-> seg]

\* Variant: records_synced is left out of the document.
MarshalWithoutCount(d) ==
    [run_id |-> d.runId,
     tables |-> {[name |-> t,
                  status |-> d.tables[t].status,
                  records_synced |-> 0,
                  completed_segments |-> {TimeSegment(seg) : seg \in d.tables[t].segs}] :
                 t \in {w \in Workers : d.tables[w].status # "none"}}]

\* json.MarshalIndent of the SyncState: run_id, and under "tables" one
\* member for each key of the map with the json fields of its TableState.
Marshal(d) ==
    [run_id |-> d.runId,
     tables |-> {[name |-> t,
                  status |-> d.tables[t].status,
                  records_synced |-> d.tables[t].records,
                  completed_segments |-> {TimeSegment(seg) : seg \in d.tables[t].segs}] :
                 t \in {w \in Workers : d.tables[w].status # "none"}}]

\* json.Unmarshal into the SyncState of NewStateManager, whose map is empty:
\* a key the document does not have stays without entry.
Unmarshal(j) ==
    [runId |-> j.run_id,
     tables |-> [t \in Workers |->
                   IF \E e \in j.tables : e.name = t
                   THEN LET e == CHOOSE m \in j.tables : m.name = t
                        IN  [status |-> e.status,
                             segs |-> {c.end : c \in e.completed_segments},
                             records |-> e.records_synced]
                   ELSE NoTableState]]

DocFile(d) == [kind |-> "doc", doc |-> Marshal(d)]

\* LoadState after NewStateManager: a missing file, and one that does not
\* parse, leave the fresh state.
LoadState(f) == IF f.kind = "doc" THEN Unmarshal(f.doc) ELSE FreshState(0)

\* IsSegmentCompleted of the StateManager whose document is d: no entry for
\* the table is false, else a completed segment with equal start and end.
SegmentCompletedIn(d, t, seg) ==
    /\ d.tables[t].status # "none"
    /\ \E c \in d.tables[t].segs :
          /\ TimeSegment(c).start = TimeSegment(seg).start
          /\ TimeSegment(c).end = TimeSegment(seg).end

\* Variant: the segment is appended and records_synced stays as it was.
MutationNotCounting(op, t, seg) ==
    IF op = "in_progress"
    THEN [mem EXCEPT !.tables[t].status = "in_progress"]
    ELSE IF op = "completed"
    THEN [mem EXCEPT !.tables[t].status = "completed"]
    ELSE IF op = "segment"
    THEN [mem EXCEPT !.tables[t] =
              [status |-> IF @.status = "none" THEN "in_progress" ELSE @.status,
               segs |-> @.segs \cup {seg},
               records |-> @.records]]
    ELSE mem

\* The in-memory mutation of the call op of worker t, seg its segment.
Mutation(op, t, seg) ==
    IF op = "in_progress"
    THEN [mem EXCEPT !.tables[t].status = "in_progress"]
    ELSE IF op = "completed"
    THEN [mem EXCEPT !.tables[t].status = "completed"]
    ELSE IF op = "segment"
    THEN [mem EXCEPT !.tables[t] =
              [status |-> IF @.status = "none" THEN "in_progress" ELSE @.status,
               segs |-> @.segs \cup {seg},
               records |-> @.records + RecordCount(seg)]]
    ELSE mem

\* The segments worker t has yet to sync and mark.
SegsToDo(t) == (1..MaxStoreSegs) \ mem.tables[t].segs

\* The StateManager right after NewStateManager, no call running.
StoreIdle ==
    /\ mem = LoadState(file)
    /\ tmp = AbsentFile
    /\ mu = {}
    /\ tpc = [th \in Threads |-> "idle"]
    /\ wop = [th \in Threads |-> "none"]
    /\ data = [th \in Threads |-> FreshState(0)]
    /\ ioFailures = 0
    /\ crashes = 0
    /\ h_saveFailed = [th \in Threads |-> FALSE]
    /\ h_lastRenamed = file

\* The worker of table t calls MarkTableInProgress.
CallMarkTableInProgress(t) ==
    /\ ~clearState
    /\ tpc[t] = "idle" /\ wop[t] = "none"
    /\ wop' = [wop EXCEPT ![t] = "in_progress"]
    /\ tpc' = [tpc EXCEPT ![t] = "lock"]
    /\ UNCHANGED <<clearState, resume, mem, file, tmp, mu, data, ioFailures, crashes,
                   h_saveFailed, h_lastRenamed>>
    /\ UNCHANGED notStore

\* incrementalSync of table t has synced its next segment and calls
\* MarkSegmentCompleted; nothing is returned to it, so it goes on whatever
\* the save did.
CallMarkSegmentCompleted(t) ==
    /\ tpc[t] = "idle" /\ wop[t] \in {"in_progress", "segment"}
    /\ SegsToDo(t) # {}
    /\ wop' = [wop EXCEPT ![t] = "segment"]
    /\ tpc' = [tpc EXCEPT ![t] = "lock"]
    /\ UNCHANGED <<clearState, resume, mem, file, tmp, mu, data, ioFailures, crashes,
                   h_saveFailed, h_lastRenamed>>
    /\ UNCHANGED notStore

\* SyncWithRealtimeMode of table t returned nil; the worker calls
\* MarkTableCompleted.
CallMarkTableCompleted(t) ==
    /\ tpc[t] = "idle" /\ wop[t] \in {"in_progress", "segment"}
    /\ SegsToDo(t) = {}
    /\ wop' = [wop EXCEPT ![t] = "completed"]
    /\ tpc' = [tpc EXCEPT ![t] = "lock"]
    /\ UNCHANGED <<clearState, resume, mem, file, tmp, mu, data, ioFailures, crashes,
                   h_saveFailed, h_lastRenamed>>
    /\ UNCHANGED notStore

\* ClearState: sm.mu.Lock().
ClearLock ==
    /\ clearState
    /\ tpc[MainThread] = "idle" /\ wop[MainThread] = "none"
    /\ mu = {}
    /\ mu' = {MainThread}
    /\ tpc' = [tpc EXCEPT ![MainThread] = "reset"]
    /\ UNCHANGED <<clearState, resume, mem, file, tmp, wop, data, ioFailures, crashes,
                   h_saveFailed, h_lastRenamed>>
    /\ UNCHANGED notStore

\* ClearState: the fresh SyncState, then the call of SaveState, which begins
\* with sm.mu.Lock().
ClearReset ==
    /\ tpc[MainThread] = "reset"
    /\ mem' = FreshState(mem.runId + 1)
    /\ wop' = [wop EXCEPT ![MainThread] = "clear"]
    /\ tpc' = [tpc EXCEPT ![MainThread] = "lock"]
    /\ UNCHANGED <<clearState, resume, file, tmp, mu, data, ioFailures, crashes,
                   h_saveFailed, h_lastRenamed>>
    /\ UNCHANGED notStore

\* Variant: the call goes on without holding the mutex.
LockWithoutWaiting(th) ==
    /\ tpc[th] = "lock"
    /\ mu' = mu \cup {th}
    /\ tpc' = [tpc EXCEPT ![th] = "mutate"]
    /\ UNCHANGED <<clearState, resume, mem, file, tmp, wop, data, ioFailures, crashes,
                   h_saveFailed, h_lastRenamed>>
    /\ UNCHANGED notStore

\* sm.mu.Lock() of Mark* and of SaveState: sync.Mutex is not reentrant.
Lock(th) ==
    /\ tpc[th] = "lock"
    /\ mu = {}
    /\ mu' = {th}
    /\ tpc' = [tpc EXCEPT ![th] = "mutate"]
    /\ UNCHANGED <<clearState, resume, mem, file, tmp, wop, data, ioFailures, crashes,
                   h_saveFailed, h_lastRenamed>>
    /\ UNCHANGED notStore

\* The in-memory mutation of the call, then saveStateUnlocked up to
\* json.MarshalIndent.
Mutate(th) ==
    /\ tpc[th] = "mutate"
    /\ \E next \in {IF wop[th] = "segment"
                     THEN Mutation("segment", th, MinOf(SegsToDo(th)))
                     ELSE Mutation(wop[th], th, 0)} :
          /\ mem' = next
          /\ data' = [data EXCEPT ![th] = next]
    /\ tpc' = [tpc EXCEPT ![th] = "write"]
    /\ UNCHANGED <<clearState, resume, file, tmp, mu, wop, ioFailures, crashes,
                   h_saveFailed, h_lastRenamed>>
    /\ UNCHANGED notStore

\* Variant: the document is written to the path of the state file itself.
WriteBeginInPlace(th) ==
    /\ tpc[th] = "write"
    /\ file' = PartialFile
    /\ tpc' = [tpc EXCEPT ![th] = "flush"]
    /\ UNCHANGED <<clearState, resume, mem, tmp, mu, wop, data, ioFailures, crashes,
                   h_saveFailed, h_lastRenamed>>
    /\ UNCHANGED notStore

\* os.WriteFile(tmpFile, ...) opens and truncates the temporary file.
WriteBegin(th) ==
    /\ tpc[th] = "write"
    /\ tmp' = PartialFile
    /\ tpc' = [tpc EXCEPT ![th] = "flush"]
    /\ UNCHANGED <<clearState, resume, mem, file, mu, wop, data, ioFailures, crashes,
                   h_saveFailed, h_lastRenamed>>
    /\ UNCHANGED notStore

\* os.WriteFile writes the document and returns; on an error
\* saveStateUnlocked returns it, and the Mark* that called drops it.
WriteEnd(th) ==
    /\ tpc[th] = "flush"
    /\ \E ok \in BOOLEAN :
          IF ok
          THEN /\ tmp' = DocFile(data[th])
               /\ tpc' = [tpc EXCEPT ![th] = "rename"]
               /\ UNCHANGED <<ioFailures, h_saveFailed>>
          ELSE /\ ioFailures < MaxIoFailures
               /\ ioFailures' = ioFailures + 1
               /\ h_saveFailed' = [h_saveFailed EXCEPT ![th] = TRUE]
               /\ tpc' = [tpc EXCEPT ![th] = "unlock"]
               /\ UNCHANGED tmp
    /\ UNCHANGED <<clearState, resume, mem, file, mu, wop, data, crashes, h_lastRenamed>>
    /\ UNCHANGED notStore

\* os.Rename(tmpFile, stateFile): atomic; its error is dropped like the
\* error of the write.
Rename(th) ==
    /\ tpc[th] = "rename"
    /\ \E ok \in BOOLEAN :
          IF ok
          THEN /\ file' = tmp
               /\ tmp' = AbsentFile
               /\ h_lastRenamed' = DocFile(data[th])
               /\ UNCHANGED <<ioFailures, h_saveFailed>>
          ELSE /\ ioFailures < MaxIoFailures
               /\ ioFailures' = ioFailures + 1
               /\ h_saveFailed' = [h_saveFailed EXCEPT ![th] = TRUE]
               /\ UNCHANGED <<file, tmp, h_lastRenamed>>
    /\ tpc' = [tpc EXCEPT ![th] = "unlock"]
    /\ UNCHANGED <<clearState, resume, mem, mu, wop, data, crashes>>
    /\ UNCHANGED notStore

\* The deferred sm.mu.Unlock(); the call returns to its caller, which got no
\* error from Mark*.  After MarkTableCompleted the worker is done, and after
\* SaveState ClearState returns.
Unlock(th) ==
    /\ tpc[th] = "unlock"
    /\ mu' = mu \ {th}
    /\ tpc' = [tpc EXCEPT ![th] = IF wop[th] = "completed" THEN "done"
                                  ELSE IF wop[th] = "clear" THEN "returned"
                                  ELSE "idle"]
    /\ UNCHANGED <<clearState, resume, mem, file, tmp, wop, data, ioFailures, crashes,
                   h_saveFailed, h_lastRenamed>>
    /\ UNCHANGED notStore

\* The process dies and is started again: NewStateManager reads the state
\* file; the two files stay as they were.
StoreCrash ==
    /\ crashes < MaxCrashes
    /\ \E th \in Threads : tpc[th] # "idle"
    /\ crashes' = crashes + 1
    /\ mem' = LoadState(file)
    /\ mu' = {}
    /\ tpc' = [th \in Threads |-> "idle"]
    /\ wop' = [th \in Threads |-> "none"]
    /\ data' = [th \in Threads |-> FreshState(0)]
    /\ h_saveFailed' = [th \in Threads |-> FALSE]
    /\ UNCHANGED <<clearState, resume, file, tmp, ioFailures, h_lastRenamed>>
    /\ UNCHANGED notStore

----------------------------------------------------------------------------
(* UniversalSyncer row by row: Sync, fullSync, syncSegment and insertBatch *)

\* sync.mode and tables[].mode as Validate admits them.
Modes == {"full", "incremental"}

\* The two methods of the coordinator that run a table: the worker of
\* SyncAllTables calls syncer.Sync, the worker of SyncAllTablesWithSmartMode
\* calls syncer.SyncWithRealtimeMode.  main calls the second.
Entries == {"SyncAllTables", "SyncAllTablesWithSmartMode"}

\* The segments the callers of syncSegment pass to it: the window of
\* realtimeIncrementalSync (skip), or a segment of the window incrementalSync
\* resolves.
CallerSegments(skip) ==
    IF skip
    THEN LET w == realtimeWindow(TargetMax, SourceMax)
         IN  IF w.case = "none" THEN {} ELSE {<<w.start, w.end>>}
    ELSE LET r == determineTimeRange
         IN  IF r.err # "none" \/ ~(r.start < r.end) THEN {}
             ELSE SeqRange(segmentTimeRange(<<r.start, r.end>>))

\* The orders in which a query without ORDER BY may return the rows of S.
RECURSIVE Orderings(_)
Orderings(S) ==
    IF S = {} THEN {<<>>}
    ELSE UNION {{<<k>> \o q : q \in Orderings(S \ {k})} : k \in S}

\* No run of the table has started.
BatchIdle ==
    /\ bpc = "idle"
    /\ strategy = "none"
    /\ batchBuf = <<>>
    /\ tx = <<>>
    /\ final = FALSE
    /\ totalInserted = 0
    /\ bResult = "none"
    /\ dbFailures = 0
    /\ runs = 0
    /\ h_appended = 0
    /\ h_flushes = 0
    /\ h_committed = {}
    /\ h_partial = {}

\* The locals of a read loop that starts.
LoopStarts ==
    /\ bpc' = "read"
    /\ batchBuf' = <<>>
    /\ tx' = <<>>
    /\ final' = FALSE
    /\ totalInserted' = 0
    /\ bResult' = "running"
    /\ runs' = runs + 1
    /\ h_appended' = 0
    /\ h_flushes' = 0
    /\ h_committed' = {}

\* Sync of a table in full mode: fullSync up to its source query.
fullSync ==
    /\ bpc \in {"idle", "returned"}
    /\ runs < MaxRuns
    /\ entry = "SyncAllTables"
    /\ mode = "full"
    /\ strategy' = "full"
    /\ \E q \in Orderings(source) : rows' = q
    /\ LoopStarts
    /\ UNCHANGED <<target, completed, skipCheckpoint, segment, existingKeys>>
    /\ UNCHANGED <<mode, entry, dbFailures, h_partial>>
    /\ UNCHANGED notBatch

\* syncSegment up to its source query, called for a segment of the catch-up
\* (skip = FALSE: by incrementalSync under Sync in incremental mode, or under
\* SyncWithRealtimeMode) or for the realtime window (skip = TRUE: by
\* realtimeIncrementalSync).  SyncWithRealtimeMode does not read the mode.
SegmentCall(seg, skip) ==
    /\ bpc \in {"idle", "returned"}
    /\ runs < MaxRuns
    /\ \/ entry = "SyncAllTables" /\ mode = "incremental" /\ ~skip
       \/ entry = "SyncAllTablesWithSmartMode"
    /\ seg \in CallerSegments(skip)
    /\ ~(~skip /\ IsSegmentCompleted(seg))
    /\ strategy' = "segment"
    /\ skipCheckpoint' = skip
    /\ segment' = seg
    /\ existingKeys' = FetchExistingKeys(seg)
    /\ rows' = SourceQuery(seg)
    /\ LoopStarts
    /\ UNCHANGED <<target, completed>>
    /\ UNCHANGED <<mode, entry, dbFailures, h_partial>>
    /\ UNCHANGED notBatch

\* Variant: the batch is submitted once it holds more than BatchSize rows.
ReadRowLate ==
    /\ bpc = "read"
    /\ rows # <<>>
    /\ rows' = Tail(rows)
    /\ IF strategy = "segment" /\ BuildKey(Head(rows)) \in existingKeys
       THEN UNCHANGED <<batchBuf, bpc, h_appended>>
       ELSE /\ batchBuf' = Append(batchBuf, Head(rows))
            /\ h_appended' = h_appended + 1
            /\ bpc' = IF Len(batchBuf) + 1 > BatchSize THEN "exec" ELSE "read"
    /\ UNCHANGED <<target, completed, skipCheckpoint, segment, existingKeys>>
    /\ UNCHANGED <<mode, entry, strategy, tx, final, totalInserted, bResult,
                   dbFailures, runs, h_flushes, h_committed, h_partial>>
    /\ UNCHANGED notBatch

\* Variant: the read loop appends every row it scans, whatever its key.
ReadRowKeepingAll ==
    /\ bpc = "read"
    /\ rows # <<>>
    /\ rows' = Tail(rows)
    /\ batchBuf' = Append(batchBuf, Head(rows))
    /\ h_appended' = h_appended + 1
    /\ bpc' = IF Len(batchBuf) + 1 >= BatchSize THEN "exec" ELSE "read"
    /\ UNCHANGED <<target, completed, skipCheckpoint, segment, existingKeys>>
    /\ UNCHANGED <<mode, entry, strategy, tx, final, totalInserted, bResult,
                   dbFailures, runs, h_flushes, h_committed, h_partial>>
    /\ UNCHANGED notBatch

\* One turn of the read loop: the row is scanned; syncSegment skips it if its
\* key is among the existing keys; otherwise it is appended and, when the
\* batch holds BatchSize rows, insertBatch is called.
ReadRow ==
    /\ bpc = "read"
    /\ rows # <<>>
    /\ rows' = Tail(rows)
    /\ IF strategy = "segment" /\ BuildKey(Head(rows)) \in existingKeys
       THEN UNCHANGED <<batchBuf, bpc, h_appended>>
       ELSE /\ batchBuf' = Append(batchBuf, Head(rows))
            /\ h_appended' = h_appended + 1
            /\ bpc' = IF Len(batchBuf) + 1 >= BatchSize THEN "exec" ELSE "read"
    /\ UNCHANGED <<target, completed, skipCheckpoint, segment, existingKeys>>
    /\ UNCHANGED <<mode, entry, strategy, tx, final, totalInserted, bResult,
                   dbFailures, runs, h_flushes, h_committed, h_partial>>
    /\ UNCHANGED notBatch

\* The loop returns nil; incrementalSync then records the segment unless the
\* checkpoint is skipped.
ReturnsOk ==
    /\ bpc' = "returned"
    /\ bResult' = "ok"
    /\ completed' = IF strategy = "segment" /\ ~skipCheckpoint
                    THEN completed \cup {segment} ELSE completed

\* rows.Next() is false without error: the remaining rows go to insertBatch,
\* or the loop returns.
EndOfRows ==
    /\ bpc = "read"
    /\ rows = <<>>
    /\ IF Len(batchBuf) > 0
       THEN /\ bpc' = "exec"
            /\ final' = TRUE
            /\ h_flushes' = h_flushes + 1
            /\ UNCHANGED <<bResult, completed>>
       ELSE /\ ReturnsOk
            /\ UNCHANGED <<final, h_flushes>>
    /\ UNCHANGED <<target, skipCheckpoint, segment, existingKeys, rows>>
    /\ UNCHANGED <<mode, entry, strategy, batchBuf, tx, totalInserted, dbFailures,
                   runs, h_appended, h_committed, h_partial>>
    /\ UNCHANGED notBatch

\* insertBatch: stmt.ExecContext of the next record of the batch.
ExecRow ==
    /\ bpc = "exec"
    /\ Len(tx) < Len(batchBuf)
    /\ tx' = Append(tx, batchBuf[Len(tx) + 1])
    /\ UNCHANGED <<target, completed, skipCheckpoint, segment, existingKeys, rows>>
    /\ UNCHANGED <<mode, entry, bpc, strategy, batchBuf, final, totalInserted,
                   bResult, dbFailures, runs, h_appended, h_flushes, h_committed,
                   h_partial>>
    /\ UNCHANGED notBatch

\* insertBatch: tx.Commit() succeeds after the last record; the loop goes on,
\* or returns after the remaining rows.
Commit ==
    /\ bpc = "exec"
    /\ Len(tx) = Len(batchBuf)
    /\ target' = insertBatch(batchBuf)
    /\ totalInserted' = totalInserted + Len(batchBuf)
    /\ h_committed' = h_committed \cup SeqRange(batchBuf)
    /\ batchBuf' = <<>>
    /\ tx' = <<>>
    /\ IF final
       THEN ReturnsOk
       ELSE /\ bpc' = "read"
            /\ UNCHANGED <<bResult, completed>>
    /\ UNCHANGED <<skipCheckpoint, segment, existingKeys, rows>>
    /\ UNCHANGED <<mode, entry, strategy, final, dbFailures, runs, h_appended,
                   h_flushes, h_partial>>
    /\ UNCHANGED notBatch

\* insertBatch: Begin, PrepareContext, an ExecContext or Commit returns an
\* error; the deferred tx.Rollback() discards the records executed, and the
\* loop returns the error.
InsertFails ==
    /\ bpc = "exec"
    /\ dbFailures < MaxDbFailures
    /\ dbFailures' = dbFailures + 1
    /\ tx' = <<>>
    /\ batchBuf' = <<>>
    /\ bpc' = "returned"
    /\ bResult' = "error"
    /\ h_partial' = IF strategy = "segment" THEN h_partial \cup h_committed
                    ELSE h_partial
    /\ UNCHANGED <<target, completed, skipCheckpoint, segment, existingKeys, rows>>
    /\ UNCHANGED <<mode, entry, strategy, final, totalInserted, runs, h_appended,
                   h_flushes, h_committed>>
    /\ UNCHANGED notBatch

\* scanRow or rows.Err() returns an error: the loop returns it, the batch in
\* memory is dropped.
ReadFails ==
    /\ bpc = "read"
    /\ dbFailures < MaxDbFailures
    /\ dbFailures' = dbFailures + 1
    /\ batchBuf' = <<>>
    /\ bpc' = "returned"
    /\ bResult' = "error"
    /\ UNCHANGED <<target, completed, skipCheckpoint, segment, existingKeys, rows>>
    /\ UNCHANGED <<mode, entry, strategy, tx, final, totalInserted, runs,
                   h_appended, h_flushes, h_committed, h_partial>>
    /\ UNCHANGED notBatch

----------------------------------------------------------------------------
(* segmentTimeRange as a function of its range and of the configuration *)

\* The instants a range may start and end at under PlanSpec: around the
\* midnights of days 0 to 3, and within the days.
PlanTimes ==
    {0, OneMs, Day - OneMs, Day, Day + OneSecond, Noon2 - Day, 2 * Day,
     Noon2, Noon2 + OneSecond, 3 * Day}

PlanIdle ==
    /\ planSegments = <<>>
    /\ planPc = "idle"

\* segmentTimeRange(timeRange)
PlanSegments ==
    /\ planPc = "idle"
    /\ planRange # NoSegment
    /\ planSegments' = SegmentPlan(planDaily, planRange)
    /\ planPc' = "planned"
    /\ UNCHANGED <<planRange, planDaily>>
    /\ UNCHANGED notPlan

----------------------------------------------------------------------------
(* Deduplicator: the text of a dedup key *)

\* A text is a sequence of characters; a dedup-column value is NULL or a
\* string.
SeqsUpTo(S, n) == UNION {[1..m -> S] : m \in 0..n}

\* formatValue of nil.
NullText == <<"<", "N", "U", "L", "L", ">">>

\* The separator of buildKeyFromValues.
Separator == "|"

NullValue == [null |-> TRUE, str |-> <<>>]
StringValue(str) == [null |-> FALSE, str |-> str]

\* The strings a dedup column holds under KeySpec: short strings with and
\* without the separator, and the string that reads like a formatted NULL.
KeyStrings == SeqsUpTo({"a", Separator}, MaxStringLen) \cup {NullText}
KeyValues == {NullValue} \cup {StringValue(str) : str \in KeyStrings}

\* formatValue: nil gives "<NULL>", a string gives itself.
formatValue(val) == IF val.null THEN NullText ELSE val.str

\* strings.Join(parts, "|")
RECURSIVE Join(_)
Join(parts) ==
    IF parts = <<>> THEN <<>>
    ELSE IF Len(parts) = 1 THEN Head(parts)
    ELSE Head(parts) \o <<Separator>> \o Join(Tail(parts))

\* buildKeyFromValues: the formatted values joined by the separator.
buildKeyFromValues(values) ==
    Join([i \in 1..Len(values) |-> formatValue(values[i])])

KeyIdle ==
    /\ dedupRowA = <<>>
    /\ dedupRowB = <<>>
    /\ dedupKeyA = <<>>
    /\ dedupKeyB = <<>>
    /\ keyPc = "idle"

\* BuildKey of a source row and buildKeyFromValues of a target row.
BuildKeys ==
    /\ keyPc = "rows"
    /\ dedupKeyA' = buildKeyFromValues(dedupRowA)
    /\ dedupKeyB' = buildKeyFromValues(dedupRowB)
    /\ keyPc' = "built"
    /\ UNCHANGED <<dedupRowA, dedupRowB>>
    /\ UNCHANGED notKey

----------------------------------------------------------------------------
(* Specification of the engine *)

\* The engine between two invocations, before anything was synced.
EngineIdle ==
    /\ source = {}
    /\ target = [k \in Keys |-> 0]
    /\ completed = {}
    /\ pc = "idle"
    /\ needCatchup = FALSE
    /\ maxTimeTarget = NoTime
    /\ maxTimeSource = NoTime
    /\ skipCheckpoint = FALSE
    /\ timeRange = NoSegment
    /\ segIdx = 0
    /\ segment = NoSegment
    /\ existingKeys = {}
    /\ rows = <<>>
    /\ lastResult = "none"
    /\ h_catchupFailed = FALSE
    /\ h_countZero = FALSE
    /\ failovers = 0
    /\ h_scanned = {}
    /\ h_skipped = 0
    /\ h_restarted = FALSE
    /\ h_quiet = TRUE
    /\ h_rtCase = "none"
    /\ h_rtTarget = NoTime
    /\ h_rtSource = NoTime
    /\ h_failoverMax = NoTime

Init ==
    /\ rowTime \in {f \in [Keys -> TimePoints \cup {NoTime}] :
                       /\ \A k \in Keys : f[k] = NoTime <=> k > MaxRows
                       /\ \A i, j \in 1..MaxRows : i < j => f[i] <= f[j]}
    /\ rowDate \in {f \in [Keys -> DateClasses] :
                       /\ Cardinality({k \in Keys : f[k] = "far"}) <= 1
                       /\ \A k \in Keys : k > MaxRows => f[k] = "in"}
    /\ EngineIdle
    /\ enabled = Tables
    /\ CoordIdle
    /\ SchemasComplete
    /\ loopInterval = 10
    /\ SuperIdle
    /\ clearState = FALSE
    /\ resume = FALSE
    /\ file = AbsentFile
    /\ StoreIdle
    /\ mode = "incremental"
    /\ entry = "SyncAllTablesWithSmartMode"
    /\ BatchIdle
    /\ planRange = NoSegment
    /\ planDaily = DailySegmentation
    /\ PlanIdle
    /\ KeyIdle

EngineStep ==
    \/ SyncWithRealtimeMode
    \/ incrementalSync
    \/ SkipSegment
    \/ CatchupSegment
    \/ StreamBatch
    \/ SegmentDone
    \/ CatchupDone
    \/ realtimeIncrementalSync
    \/ RealtimeDone

Next ==
    \/ SyncWithRealtimeMode
    \/ incrementalSync
    \/ SkipSegment
    \/ CatchupSegment
    \/ StreamBatch
    \/ SegmentDone
    \/ CatchupDone
    \/ realtimeIncrementalSync
    \/ RealtimeDone
    \/ DbError
    \/ Crash
    \/ \E k \in Keys : WriteRow(k)
    \/ Failover

Spec == Init /\ [][Next]_vars

----------------------------------------------------------------------------
(* Specification of the coordinator over tables whose schemas lack         *)
(* configured columns: every table is enabled, and the first table lacks   *)
(* any of its configured columns in the source, in the target or in both   *)
(* (sync.schema_sync is off, so nothing aligns the two schemas).           *)

SchemaInit ==
    /\ rowTime = [k \in Keys |-> NoTime]
    /\ rowDate = [k \in Keys |-> "in"]
    /\ EngineIdle
    /\ enabled = Tables
    /\ CoordIdle
    /\ srcMissing \in {f \in [Tables -> SUBSET Columns] : \A t \in Tables : t > 1 => f[t] = {}}
    /\ tgtMissing \in {f \in [Tables -> SUBSET Columns] : \A t \in Tables : t > 1 => f[t] = {}}
    /\ loopInterval = 10
    /\ SuperIdle
    /\ clearState = FALSE
    /\ resume = FALSE
    /\ file = AbsentFile
    /\ StoreIdle
    /\ mode = "incremental"
    /\ entry = "SyncAllTablesWithSmartMode"
    /\ BatchIdle
    /\ planRange = NoSegment
    /\ planDaily = DailySegmentation
    /\ PlanIdle
    /\ KeyIdle

SchemaNext ==
    \/ StartRunAll
    \/ Spawn
    \/ \E t \in Tables : Acquire(t)
    \/ \E t \in Tables : MarkTableInProgress(t)
    \/ \E t \in Tables : NewSyncer(t)
    \/ \E t \in Tables, r \in {"ok", "empty", "error"} :
          SyncerReturns(t, r)
    \/ \E t \in Tables : Release(t)
    \/ Collect

SchemaSpec == SchemaInit /\ [][SchemaNext]_vars

----------------------------------------------------------------------------
(* Specification of the engine over a source that holds rows older than    *)
(* the fallback start of the catch-up: the catch-up of an empty target may *)
(* then find an empty window and leave the target empty for the realtime   *)
(* step.                                                                   *)

WindowInit ==
    /\ rowTime \in {f \in [Keys -> WindowTimePoints \cup {NoTime}] :
                       /\ \A k \in Keys : f[k] = NoTime <=> k > MaxRows
                       /\ \A i, j \in 1..MaxRows : i < j => f[i] <= f[j]}
    /\ rowDate = [k \in Keys |-> "in"]
    /\ EngineIdle
    /\ enabled = Tables
    /\ CoordIdle
    /\ SchemasComplete
    /\ loopInterval = 10
    /\ SuperIdle
    /\ clearState = FALSE
    /\ resume = FALSE
    /\ file = AbsentFile
    /\ StoreIdle
    /\ mode = "incremental"
    /\ entry = "SyncAllTablesWithSmartMode"
    /\ BatchIdle
    /\ planRange = NoSegment
    /\ planDaily = DailySegmentation
    /\ PlanIdle
    /\ KeyIdle

WindowNext ==
    \/ SyncWithRealtimeMode
    \/ incrementalSync
    \/ SkipSegment
    \/ CatchupSegment
    \/ StreamBatch
    \/ SegmentDone
    \/ CatchupDone
    \/ realtimeIncrementalSync
    \/ RealtimeDone
    \/ DbError
    \/ Crash
    \/ \E k \in Keys : WriteRow(k)
    \/ Failover

WindowSpec == WindowInit /\ [][WindowNext]_vars

----------------------------------------------------------------------------
(* Specification of the engine in a run without errors: the supervisor loop *)
(* of main starts cycle after cycle, so an invocation that can take a step *)
(* eventually takes it.  No segment of a plan is in the checkpoint in such *)
(* a run, so SkipSegment is not among its steps.                           *)

FairInit ==
    /\ rowTime \in {f \in [Keys -> FairTimePoints] :
                       \A i, j \in Keys : i < j => f[i] <= f[j]}
    /\ rowDate = [k \in Keys |-> "in"]
    /\ EngineIdle
    /\ enabled = Tables
    /\ CoordIdle
    /\ SchemasComplete
    /\ loopInterval = 10
    /\ SuperIdle
    /\ clearState = FALSE
    /\ resume = FALSE
    /\ file = AbsentFile
    /\ StoreIdle
    /\ mode = "incremental"
    /\ entry = "SyncAllTablesWithSmartMode"
    /\ BatchIdle
    /\ planRange = NoSegment
    /\ planDaily = DailySegmentation
    /\ PlanIdle
    /\ KeyIdle

FairNext ==
    \/ SyncWithRealtimeMode
    \/ incrementalSync
    \/ CatchupSegment
    \/ StreamBatch
    \/ SegmentDone
    \/ CatchupDone
    \/ realtimeIncrementalSync
    \/ RealtimeDone
    \/ \E k \in Keys : WriteRow(k)
    \/ Failover

FairSpec == FairInit /\ [][FairNext]_vars /\ WF_vars(EngineStep)

----------------------------------------------------------------------------
(* Specification of the coordinator *)

CoordInit ==
    /\ rowTime = [k \in Keys |-> NoTime]
    /\ rowDate = [k \in Keys |-> "in"]
    /\ EngineIdle
    /\ enabled \in SUBSET Tables
    /\ CoordIdle
    /\ SchemasComplete
    /\ loopInterval = 10
    /\ SuperIdle
    /\ clearState = FALSE
    /\ resume = FALSE
    /\ file = AbsentFile
    /\ StoreIdle
    /\ mode = "incremental"
    /\ entry = "SyncAllTablesWithSmartMode"
    /\ BatchIdle
    /\ planRange = NoSegment
    /\ planDaily = DailySegmentation
    /\ PlanIdle
    /\ KeyIdle

CoordNext ==
    \/ StartRunAll
    \/ Spawn
    \/ \E t \in Tables : Acquire(t)
    \/ \E t \in Tables : MarkTableInProgress(t)
    \/ \E t \in Tables : NewSyncer(t)
    \/ \E t \in Tables, r \in {"ok", "empty", "error"} :
          SyncerReturns(t, r)
    \/ \E t \in Tables : Release(t)
    \/ Collect

CoordSpec == CoordInit /\ [][CoordNext]_vars

----------------------------------------------------------------------------
(* Specification of the coordinator under the scheduler of the Go runtime: *)
(* a goroutine that can take a step eventually takes it, and the run of a  *)
(* table returns.  Nothing obliges main to start a cycle.                  *)

FairCoordSpec ==
    /\ CoordInit
    /\ [][CoordNext]_vars
    /\ WF_vars(Spawn)
    /\ WF_vars(Collect)
    /\ \A t \in Tables :
          /\ WF_vars(Acquire(t))
          /\ WF_vars(MarkTableInProgress(t))
          /\ WF_vars(NewSyncer(t))
          /\ WF_vars(\E r \in {"ok", "empty", "error"} : SyncerReturns(t, r))
          /\ WF_vars(Release(t))

----------------------------------------------------------------------------
(* Specification of the supervisor *)

SuperInit ==
    /\ rowTime = [k \in Keys |-> NoTime]
    /\ rowDate = [k \in Keys |-> "in"]
    /\ EngineIdle
    /\ enabled = Tables
    /\ CoordIdle
    /\ SchemasComplete
    /\ loopInterval \in LoopIntervals
    /\ SuperIdle
    /\ clearState = FALSE
    /\ resume = FALSE
    /\ file = AbsentFile
    /\ StoreIdle
    /\ mode = "incremental"
    /\ entry = "SyncAllTablesWithSmartMode"
    /\ BatchIdle
    /\ planRange = NoSegment
    /\ planDaily = DailySegmentation
    /\ PlanIdle
    /\ KeyIdle

SuperNext ==
    \/ StartCycle
    \/ CycleStartsSegment
    \/ \E outcome \in {"ok", "error"} : CycleReturns(outcome)
    \/ SelectPoll
    \/ TimerFires
    \/ Signal
    \/ ExitOnSignal

SuperSpec == SuperInit /\ [][SuperNext]_vars

----------------------------------------------------------------------------
(* Specification of the StateManager *)

StoreInit ==
    /\ rowTime = [k \in Keys |-> NoTime]
    /\ rowDate = [k \in Keys |-> "in"]
    /\ EngineIdle
    /\ enabled = Tables
    /\ CoordIdle
    /\ SchemasComplete
    /\ loopInterval = 10
    /\ SuperIdle
    /\ clearState \in BOOLEAN
    /\ resume \in BOOLEAN
    /\ file \in {AbsentFile, DocFile(OldState)}
    /\ StoreIdle
    /\ mode = "incremental"
    /\ entry = "SyncAllTablesWithSmartMode"
    /\ BatchIdle
    /\ planRange = NoSegment
    /\ planDaily = DailySegmentation
    /\ PlanIdle
    /\ KeyIdle

StoreNext ==
    \/ \E t \in Workers : CallMarkTableInProgress(t)
    \/ \E t \in Workers : CallMarkSegmentCompleted(t)
    \/ \E t \in Workers : CallMarkTableCompleted(t)
    \/ ClearLock
    \/ ClearReset
    \/ \E th \in Threads : Lock(th)
    \/ \E th \in Threads : Mutate(th)
    \/ \E th \in Threads : WriteBegin(th)
    \/ \E th \in Threads : WriteEnd(th)
    \/ \E th \in Threads : Rename(th)
    \/ \E th \in Threads : Unlock(th)
    \/ StoreCrash

StoreSpec == StoreInit /\ [][StoreNext]_vars

----------------------------------------------------------------------------
(* Specification of the read loops: a table with up to MaxRows source rows, *)
(* some of them already in the target, is run MaxRuns times through one of *)
(* the two coordinator methods; the probes and the windows of the callers  *)
(* of syncSegment are those of Spec.                                       *)

\* The time column of the rows: over two days, or within five minutes.
BatchRowTimes ==
    {[k \in Keys |-> IF k > MaxRows THEN NoTime
                     ELSE IF k = 1 THEN Noon2 - Day
                     ELSE IF k = 2 THEN Noon2 - BackwardWindow
                     ELSE Noon2],
     [k \in Keys |-> IF k > MaxRows THEN NoTime
                     ELSE IF k = 1 THEN Noon2 - BackwardWindow
                     ELSE Noon2]}

BatchInit ==
    /\ rowTime \in BatchRowTimes
    /\ rowDate \in {f \in [Keys -> DateClasses] :
                       /\ Cardinality({k \in Keys : f[k] = "far"}) <= 1
                       /\ \A k \in Keys : k > MaxRows => f[k] = "in"}
    /\ source \in SUBSET (1..MaxRows)
    /\ target \in {[k \in Keys |-> IF k \in T THEN 1 ELSE 0] : T \in SUBSET (1..MaxRows)}
    /\ completed = {}
    /\ pc = "idle"
    /\ needCatchup = FALSE
    /\ maxTimeTarget = NoTime
    /\ maxTimeSource = NoTime
    /\ skipCheckpoint = FALSE
    /\ timeRange = NoSegment
    /\ segIdx = 0
    /\ segment = NoSegment
    /\ existingKeys = {}
    /\ rows = <<>>
    /\ lastResult = "none"
    /\ h_catchupFailed = FALSE
    /\ h_countZero = FALSE
    /\ failovers = 0
    /\ h_scanned = {}
    /\ h_skipped = 0
    /\ h_restarted = FALSE
    /\ h_quiet = TRUE
    /\ h_rtCase = "none"
    /\ h_rtTarget = NoTime
    /\ h_rtSource = NoTime
    /\ h_failoverMax = NoTime
    /\ enabled = Tables
    /\ CoordIdle
    /\ SchemasComplete
    /\ loopInterval = 10
    /\ SuperIdle
    /\ clearState = FALSE
    /\ resume = FALSE
    /\ file = AbsentFile
    /\ StoreIdle
    /\ mode \in Modes
    /\ entry \in Entries
    /\ BatchIdle
    /\ planRange = NoSegment
    /\ planDaily = DailySegmentation
    /\ PlanIdle
    /\ KeyIdle

BatchNext ==
    \/ fullSync
    \/ \E skip \in BOOLEAN : \E seg \in CallerSegments(skip) : SegmentCall(seg, skip)
    \/ ReadRow
    \/ EndOfRows
    \/ ExecRow
    \/ Commit
    \/ InsertFails
    \/ ReadFails

BatchSpec == BatchInit /\ [][BatchNext]_vars

----------------------------------------------------------------------------
(* Specification of segmentTimeRange as a function of its range and of the *)
(* configuration                                                           *)

PlanInit ==
    /\ rowTime = [k \in Keys |-> NoTime]
    /\ rowDate = [k \in Keys |-> "in"]
    /\ EngineIdle
    /\ enabled = Tables
    /\ CoordIdle
    /\ SchemasComplete
    /\ loopInterval = 10
    /\ SuperIdle
    /\ clearState = FALSE
    /\ resume = FALSE
    /\ file = AbsentFile
    /\ StoreIdle
    /\ mode = "incremental"
    /\ entry = "SyncAllTablesWithSmartMode"
    /\ BatchIdle
    /\ planRange \in PlanTimes \X PlanTimes
    /\ planDaily \in BOOLEAN
    /\ PlanIdle
    /\ KeyIdle

PlanNext == PlanSegments

PlanSpec == PlanInit /\ [][PlanNext]_vars

----------------------------------------------------------------------------
(* Specification of the dedup key over pairs of rows of two dedup columns *)

KeyInit ==
    /\ rowTime = [k \in Keys |-> NoTime]
    /\ rowDate = [k \in Keys |-> "in"]
    /\ EngineIdle
    /\ enabled = Tables
    /\ CoordIdle
    /\ SchemasComplete
    /\ loopInterval = 10
    /\ SuperIdle
    /\ clearState = FALSE
    /\ resume = FALSE
    /\ file = AbsentFile
    /\ StoreIdle
    /\ mode = "incremental"
    /\ entry = "SyncAllTablesWithSmartMode"
    /\ BatchIdle
    /\ planRange = NoSegment
    /\ planDaily = DailySegmentation
    /\ planSegments = <<>>
    /\ planPc = "idle"
    /\ dedupRowA \in [1..NumDedupColumns -> KeyValues]
    /\ dedupRowB \in [1..NumDedupColumns -> KeyValues]
    /\ dedupKeyA = <<>>
    /\ dedupKeyB = <<>>
    /\ keyPc = "rows"

KeyNext == BuildKeys

KeySpec == KeyInit /\ [][KeyNext]_vars

----------------------------------------------------------------------------
(* Properties of the engine *)

\* C1: the target never holds two rows with the same dedup key (the rows of
\* the source have pairwise different keys).
C1_Idempotence == \A k \in Keys : target[k] <= 1

\* C2: when catch-up is about to return success for its window, and the source
\* did not change during the invocation, every source row with its time in the
\* window has a copy in the target.
C2_Coverage ==
    (pc = "segments" /\ segIdx > Len(Segments) /\ h_quiet)
        => \A k \in source : InSegment(rowTime[k], timeRange) => target[k] > 0

\* C3: in a run without errors, where the source stops changing, the target
\* eventually holds a copy of every source row, and keeps holding one.
C3_Convergence == <>[](\A k \in source : target[k] > 0)

\* C4: a segment enters the checkpoint only in a step taken after syncSegment
\* returned success on it: the source query was read to its end, it returned
\* every source row of the segment, and each of them has a copy in the target.
C4_SegmentAtomicity ==
    [][completed' # completed =>
          /\ pc = "synced" /\ rows = <<>>
          /\ completed' = completed \cup {segment}
          /\ \A k \in source : InSegment(rowTime[k], segment) => k \in h_scanned
          /\ \A k \in h_scanned : target[k] > 0]_vars

\* C4, its case: after an interrupted catch-up the checkpoint holds a segment
\* whose rows are copied, and no segment of a source row that is not.
C4_Witness ==
    /\ pc = "idle" /\ lastResult = "crashed"
    /\ \E seg \in completed :
          \E k \in source : InSegment(rowTime[k], seg) /\ target[k] > 0
    /\ \E k \in source :
          target[k] = 0 /\ \A seg \in completed : ~InSegment(rowTime[k], seg)

\* C5: when the realtime sync of a regressed source (both probes defined,
\* source max below target max) has returned, its window was
\* [target max - 5 min, source max + 1 s) and every source row of the window
\* has a copy in the target.
C5_FailoverWindow ==
    (/\ pc = "synced" /\ skipCheckpoint
     /\ h_rtTarget # NoTime /\ h_rtSource # NoTime /\ h_rtSource < h_rtTarget)
        => /\ segment = <<h_rtTarget - BackwardWindow, h_rtSource + OneSecond>>
           /\ \A k \in source : InSegment(rowTime[k], segment) => target[k] > 0

\* C5, its case: the realtime sync of a regressed source inserted a row that
\* is more than five seconds older than the target max.
C5_Witness ==
    /\ pc = "synced" /\ skipCheckpoint
    /\ h_rtSource # NoTime /\ h_rtSource < h_rtTarget
    /\ \E k \in h_scanned :
          /\ BuildKey(k) \notin existingKeys
          /\ rowTime[k] < h_rtTarget - FiveSeconds
          /\ target[k] > 0

\* C6: in a run without errors, once a failover was detected at target max T
\* and the source max is beyond T, eventually every source row with its time in
\* [T - 5 min, T] has a copy in the target, and keeps having one.
C6_Reconciliation ==
    <>[]((h_failoverMax # NoTime /\ SourceMax > h_failoverMax)
            => \A k \in source :
                  (/\ h_failoverMax - BackwardWindow <= rowTime[k]
                   /\ rowTime[k] <= h_failoverMax) => target[k] > 0)

\* A step of the catch-up loop on its next planned segment.
CatchupAdvances ==
    /\ pc = "segments" /\ segIdx <= Len(Segments)
    /\ pc' # "idle"
    /\ <<pc', segIdx'>> # <<pc, segIdx>>

\* C7: a restart keeps the recorded segments; the catch-up loop passes over a
\* planned segment without reading the source or writing the target exactly
\* when the checkpoint records it, runs syncSegment on every other one, and
\* moves on by one segment at a time.
C7_Resume ==
    [][/\ (h_restarted' /\ ~h_restarted) => completed' = completed
       /\ CatchupAdvances =>
             IF Segments[segIdx] \in completed
             THEN /\ pc' = "segments" /\ segIdx' = segIdx + 1
                  /\ target' = target /\ completed' = completed
                  /\ rows' = rows /\ h_scanned' = h_scanned
             ELSE /\ pc' = "stream" /\ segIdx' = segIdx
                  /\ segment' = Segments[segIdx]
       /\ (pc \in {"stream", "synced"} /\ ~skipCheckpoint /\ segIdx' # segIdx
              /\ pc' # "idle")
             => /\ pc = "synced" /\ segment = Segments[segIdx]
                /\ segIdx' = segIdx + 1
       /\ (pc = "segments" /\ pc' = "realtime") => segIdx = Len(Segments) + 1]_vars

\* C7, its case: after a restart the catch-up planned three segments, skipped
\* the two the checkpoint records and runs syncSegment on the third.
C7_Witness ==
    /\ h_restarted /\ pc = "stream" /\ ~skipCheckpoint
    /\ Len(Segments) = 3 /\ segIdx = 3 /\ h_skipped = 2

\* The probes of SyncWithRealtimeMode have just been taken.
Probed ==
    /\ pc \in {"catchup", "realtime"}
    /\ maxTimeTarget # NoTime \/ maxTimeSource # NoTime

\* C8: after the probes the invocation is in catch-up exactly when the target
\* max is undefined and the source max defined, or both are defined and their
\* difference is above the threshold; otherwise it is in realtime, with the
\* checkpoint switched off.
C8_StrategySelection ==
    Probed =>
        LET catchup ==
                \/ maxTimeTarget = NoTime /\ maxTimeSource # NoTime
                \/ /\ maxTimeTarget # NoTime /\ maxTimeSource # NoTime
                   /\ maxTimeSource - maxTimeTarget > RealtimeThreshold
        IN  /\ (pc = "catchup") <=> catchup
            /\ (pc = "realtime") <=> ~catchup
            /\ pc = "realtime" => skipCheckpoint /\ ~needCatchup

\* C8, its case: the lag equals the threshold and the invocation is in realtime.
C8_Witness ==
    /\ Probed /\ pc = "realtime"
    /\ maxTimeTarget # NoTime /\ maxTimeSource # NoTime
    /\ maxTimeSource - maxTimeTarget = RealtimeThreshold

----------------------------------------------------------------------------
(* Properties of the coordinator *)

\* The workers between acquiring and releasing the semaphore.
Holding == {t \in Tables : wpc[t] \in {"acquired", "constructing", "running", "exiting"}}

\* C9: at most MaxConcurrency workers are between acquiring and releasing the
\* semaphore.
C9_ConcurrencyBound == Cardinality(Holding) <= MaxConcurrency

\* C9, its case: the semaphore is full and a worker waits for it.
C9_Witness ==
    /\ Cardinality(Holding) = MaxConcurrency
    /\ \E t \in Tables : wpc[t] = "waiting"

\* C10: a worker leaves only with the result of its own run, and when
\* SyncAllTablesWithSmartMode has returned from its workers, every enabled
\* table has run to its own result.
C10_FailureIsolation ==
    /\ \A t \in Tables : wpc[t] = "done" => wresult[t] # "none"
    /\ (coordPc = "idle" /\ runResult \in {"ok", "failed"})
          => \A t \in enabled : wpc[t] = "done" /\ wresult[t] # "none"

\* C10, its case: a table that acquired after a sibling had failed ran to
\* success, and the call returned its failure count.
C10_Witness ==
    /\ coordPc = "idle" /\ runResult = "failed"
    /\ \E t \in h_failedBefore : wresult[t] = "ok"

\* SyncAllTablesWithSmartMode has returned.
Returned == coordPc = "idle" /\ runResult # "none"

\* The enabled tables whose run ended with an error other than
\* ErrSourceTableEmpty.
FailedTables == {t \in enabled : wresult[t] = "error"}

C12_CompositeNamesFailedTables ==
    (Returned /\ runResult = "failed") => runError.names = FailedTables

----------------------------------------------------------------------------
(* Properties of the supervisor *)

\* C13: main leaves its loop only through the signal case of the select;
\* whatever a cycle returned, main goes on to the select, and from the select
\* to the top of the loop and the next cycle unless a signal was received.
C13_NoExitOnError ==
    [][/\ (supPc' = "exited" /\ supPc # "exited") => supPc = "signalled"
       /\ (supPc' = "signalled" /\ supPc # "signalled")
             => (sigChan > 0 \/ signals' > signals)
       /\ (supPc = "cycle" /\ supPc' # "cycle") => supPc' = "select"
       /\ (supPc \in {"select", "parked"} /\ supPc' \notin {"select", "parked"})
             => supPc' \in {"loop", "signalled"}
       /\ (supPc = "loop" /\ supPc' # "loop") => supPc' = "cycle"]_vars

\* C13, its case: a cycle is running after a cycle that returned an error.
C13_Witness ==
    supPc = "cycle" /\ lastOutcome = "error" /\ cycleCount > 1

\* C14: once a signal was delivered while a cycle is running, that cycle
\* starts no further segment or realtime window.
C14_CancellationStopsCycle == ~h_startedAfterSignal

----------------------------------------------------------------------------
(* Properties of the StateManager *)

\* The steps of the thread of main that runs ClearState.
ClearStep ==
    \/ ClearLock
    \/ ClearReset
    \/ Lock(MainThread)
    \/ Mutate(MainThread)
    \/ WriteBegin(MainThread)
    \/ WriteEnd(MainThread)
    \/ Rename(MainThread)
    \/ Unlock(MainThread)

\* C16: a run with --clear-state that has not returned from ClearState can
\* take its next step, and when ClearState has returned the in-memory state
\* is a fresh one without tables, the state file holds it, and the mutex is
\* free.
C16_ClearReturns ==
    /\ (clearState /\ tpc[MainThread] # "returned") => ENABLED ClearStep
    /\ tpc[MainThread] = "returned"
          => /\ mem = FreshState(mem.runId)
             /\ file = DocFile(mem)
             /\ mu = {}

\* C17: after a save of a worker's Mark* call failed, the worker does nothing
\* but leave that call and end its run with an error.
C17_PersistFailureFatal ==
    \A t \in Workers : h_saveFailed[t] => tpc[t] \in {"unlock", "failed"}

\* C18: the path of the state file never holds the beginning of a document:
\* it holds what it held at the start, or the document marshalled by the
\* last save that renamed.
C18_AtomicPersistence ==
    /\ file.kind # "partial"
    /\ file = h_lastRenamed

\* C18, its case: the process crashed in the middle of a write, after a save
\* of this run had replaced the state file.
C18_Witness ==
    /\ crashes > 0
    /\ tmp = PartialFile
    /\ file.kind = "doc" /\ file # DocFile(OldState)

C20_RealtimeNoCheckpoint ==
    /\ [](skipCheckpoint => pc \in {"realtime", "stream", "synced"})
    /\ [][skipCheckpoint => /\ completed' = completed
                            /\ h_skipped' <= h_skipped]_vars

\* C20, its case: a realtime sync that follows a recorded catch-up has
\* inserted a row.
C20_Witness ==
    /\ pc = "synced" /\ skipCheckpoint
    /\ completed # {}
    /\ segment \notin completed
    /\ \E k \in h_scanned : BuildKey(k) \notin existingKeys /\ target[k] > 0

\* C22: the resume flag controls whether an existing checkpoint is honoured.
\* When the process has started with resume disabled, no worker has yet called
\* the StateManager and nothing was cleared, every segment of every table is
\* still to be executed, whatever the state file held; with resume enabled
\* the segments the file records are not to be executed again.
C22_ResumeControlsCheckpoint ==
    (/\ ~clearState
     /\ \A th \in Threads : tpc[th] = "idle" /\ wop[th] = "none")
        => \A t \in Workers :
              SegsToDo(t) = IF resume THEN (1..MaxStoreSegs) \ LoadState(file).tables[t].segs
                                      ELSE 1..MaxStoreSegs

\* C21: full-mode variant.  When the run of a table whose effective mode is
\* full has returned without error, it has inserted as many rows as the
\* source holds, whatever the target held, and no segment is recorded.
C21_FullModeVariant ==
    (mode = "full" /\ bpc = "returned" /\ bResult = "ok")
        => /\ totalInserted = Cardinality(source)
           /\ completed = {}

Overlap(a, b) == a[1] < b[2] /\ b[1] < a[2]

\* C24: checkpoint non-overlap.  While catch-up works through its plan, no
\* recorded segment overlaps a segment of the plan that is still to be
\* executed and is not itself recorded.
C24_CheckpointNonOverlap ==
    pc \in {"segments", "stream", "synced"} /\ ~skipCheckpoint =>
        \A i \in segIdx..Len(Segments) :
            Segments[i] \notin completed =>
                \A c \in completed : ~Overlap(c, Segments[i])

\* C25: bounded memory.  The batch of the read loop (syncSegment and
\* fullSync) never holds more than BatchSize rows; a batch of BatchSize rows
\* is with insertBatch and is empty again when the loop reads on; the
\* remaining rows are flushed at most once, and a loop that has returned nil
\* has inserted every row it appended, with one flush of remaining rows
\* exactly when their number is not a multiple of BatchSize.
C25_BoundedBatch ==
    /\ Len(batchBuf) <= BatchSize
    /\ Len(batchBuf) = BatchSize => bpc = "exec"
    /\ bpc = "read" => Len(batchBuf) < BatchSize
    /\ h_flushes <= 1
    /\ (bpc = "returned" /\ bResult = "ok") =>
           /\ batchBuf = <<>>
           /\ totalInserted = h_appended
           /\ h_flushes = IF h_appended % BatchSize # 0 THEN 1 ELSE 0

\* C25, its case: a syncSegment has returned after a full batch and a flush
\* of the remaining rows.
C25_Witness ==
    /\ bpc = "returned" /\ bResult = "ok"
    /\ strategy = "segment"
    /\ totalInserted > BatchSize
    /\ h_flushes = 1

\* C26: batch atomicity and recovery from a write error.  The target changes
\* only by the commit of a whole batch and never loses a row; a failed
\* insertBatch leaves the target as it was and the loop returns an error;
\* and a row committed by a syncSegment that failed later is never appended
\* to a batch again: its key is among the existing keys of the next
\* syncSegment that scans it.
C26_BatchAtomicity ==
    /\ [][/\ target' # target =>
                /\ bpc = "exec" /\ Len(tx) = Len(batchBuf)
                /\ target' = insertBatch(batchBuf)
          /\ \A k \in Keys : target'[k] >= target[k]
          /\ dbFailures' > dbFailures =>
                target' = target /\ bpc' = "returned" /\ bResult' = "error"]_vars
    /\ [](strategy = "segment" => \A k \in h_partial : k \notin SeqRange(batchBuf))

\* The rows the returned syncSegment found in the target when it started, and
\* the rows it inserted.
PresentBefore == {k \in h_scanned : StoredKey(k) \in existingKeys}
InsertedNow == {k \in h_scanned : BuildKey(k) \notin existingKeys}

\* C27: realtime steady state.  When the realtime sync that probed a valid
\* target max and a valid source max not below it has returned from its
\* syncSegment, its window was [target max - 5 s, source max + 1 s), and of the
\* source rows of the window it inserted exactly those of which the target
\* held no copy; those of which it held one were skipped.
C27_RealtimeSteadyState ==
    (pc = "synced" /\ skipCheckpoint /\ h_rtCase = "normal") =>
        /\ h_rtTarget # NoTime /\ h_rtSource # NoTime /\ h_rtSource >= h_rtTarget
        /\ segment = <<h_rtTarget - FiveSeconds, h_rtSource + OneSecond>>
        /\ \A k \in h_scanned : InSegment(rowTime[k], segment)
        /\ InsertedNow = h_scanned \ PresentBefore
        /\ \A k \in InsertedNow : target[k] > 0

\* C28: catch-up abort.  The step in which syncSegment fails for a catch-up
\* segment records nothing (the segment stays unrecorded, the recorded ones
\* stay), ends the invocation and returns an error; and an invocation never
\* goes on to a later segment, nor to the realtime window, past a segment of
\* its plan that is not recorded.
C28_CatchupAbort ==
    /\ [][(h_catchupFailed' /\ ~h_catchupFailed) =>
              /\ completed' = completed
              /\ segment \notin completed'
              /\ pc' = "idle"
              /\ lastResult' = "error"]_vars
    /\ [](pc \in {"segments", "stream", "synced", "realtime"} =>
              \A i \in 1..(segIdx - 1) :
                  i <= Len(Segments) => Segments[i] \in completed)

\* C28, its case: the invocation has returned the error of a catch-up segment
\* after an earlier segment was recorded, and a source row is still missing.
C28_Witness ==
    /\ pc = "idle" /\ lastResult = "error" /\ h_catchupFailed
    /\ completed # {}
    /\ \E k \in source : target[k] = 0

\* The invocation is in its catch-up, and in its realtime step.
InCatchup == pc \in {"catchup", "segments"} \/ (pc \in {"stream", "synced"} /\ ~skipCheckpoint)
InRealtime == pc = "realtime" \/ (pc \in {"stream", "synced"} /\ skipCheckpoint)

\* C29: per-invocation ordering.  Catch-up is entered only at the start of an
\* invocation and never again after it was left; its plan is ordered in
\* time, its segments are started by increasing index, each after all
\* segments before it are recorded; the realtime step is entered only from
\* the start of the invocation or from a catch-up that is through its plan,
\* and is left only by the return of the invocation.
C29_InvocationOrdering ==
    /\ [][/\ (InCatchup' /\ ~InCatchup) => pc = "idle"
          /\ (InRealtime' /\ ~InRealtime) =>
                \/ pc = "idle"
                \/ pc = "catchup"
                \/ pc = "segments" /\ segIdx > Len(Segments)
          /\ (InRealtime /\ ~InRealtime') => pc' = "idle"
          /\ (pc = "realtime" /\ pc' # pc) => pc' \in {"stream", "idle"}
          /\ (pc = "synced" /\ skipCheckpoint /\ pc' # pc) => pc' = "idle"
          /\ (InCatchup /\ InCatchup') => segIdx' >= segIdx
          /\ (pc = "segments" /\ pc' = "stream") =>
                /\ segment' = Segments[segIdx]
                /\ \A i \in 1..(segIdx - 1) :
                      /\ Segments[i] \in completed
                      /\ Segments[i][2] <= segment'[1]]_vars
    /\ [](pc \in {"segments", "stream", "synced"} =>
              \A i, j \in 1..Len(Segments) :
                  i < j => Segments[i][2] <= Segments[j][1])

\* C29, its case: the realtime window of an invocation has been synced after
\* its catch-up ran the two segments of its plan.
C29_Witness ==
    /\ pc = "synced" /\ skipCheckpoint
    /\ Len(Segments) >= 2 /\ h_skipped = 0
    /\ \A i \in 1..Len(Segments) : Segments[i] \in completed
    /\ h_scanned # {}

\* The realtime step stands before a count probe that finds no row.
CountIsZero ==
    /\ pc = "realtime"
    /\ LET w == realtimeWindow(TargetMax, SourceMax)
       IN  w.case # "none" /\ CountRange(w.start, w.end) = 0

\* C30: when the count probe over the realtime window returns zero, the
\* realtime step returns success to the worker: no query of source rows is
\* started, the target and the completed segments are as they were.
C30_ZeroCountReturns ==
    /\ [][(CountIsZero /\ pc' # pc /\ lastResult' \notin {"error", "crashed"}) =>
              /\ pc' = "idle"
              /\ lastResult' = "ok"
              /\ h_countZero'
              /\ target' = target
              /\ completed' = completed
              /\ source' = source
              /\ rows' = <<>> /\ h_scanned' = {} /\ existingKeys' = {}]_vars
    /\ [](h_countZero => pc = "idle" /\ lastResult = "ok")

\* C30, its case: a realtime step has returned on a count of zero, over a
\* source that holds rows.
C30_Witness ==
    h_countZero /\ source # {} /\ TargetRows # {}

\* The rows the count probe of realtimeIncrementalSync counts over a window.
Counted(w) == {k \in source : w.start <= rowTime[k] /\ rowTime[k] <= w.end}

\* C31: realtime over an empty target syncs the closed window
\* [now - 5 min, source_max]: every row the count probe counts is read by the
\* syncSegment on the same window, and once the window is synced every source
\* row at source_max (and not before the window) whose key the target did
\* not hold is in the target.
C31_EmptyTargetWindow ==
    /\ [][(pc = "realtime" /\ pc' = "stream") =>
              Counted(realtimeWindow(TargetMax, SourceMax)) \subseteq h_scanned']_vars
    /\ []((pc = "synced" /\ skipCheckpoint /\ h_rtCase = "empty_target") =>
              /\ segment = <<Now - BackwardWindow, h_rtSource>>
              /\ \A k \in source :
                    (/\ rowTime[k] = h_rtSource
                     /\ rowTime[k] >= Now - BackwardWindow
                     /\ BuildKey(k) \notin existingKeys) => target[k] > 0)

\* The source probe is undefined or fails the validity predicate.
SourceUndefined(ms) == ~TimeValid(ms, Now + Day)

\* C32: an invocation whose source probe is undefined or invalid inserts no
\* row and records no segment.  With an undefined target probe it returns
\* SourceTableEmpty at once; with a defined one it goes to the realtime step
\* without catch-up, and that step (the source unchanged since the probes)
\* returns success with the target and the checkpoint as they were.  The
\* catch-up is never entered on an undefined source probe.
C32_UndefinedSource ==
    /\ [][/\ (pc = "idle" /\ source' = source /\ SourceUndefined(SourceMax)) =>
                \/ UNCHANGED vars
                \/ /\ target' = target /\ completed' = completed
                   /\ IF ~TimeValid(TargetMax, Now + Day)
                      THEN pc' = "idle" /\ lastResult' = "empty"
                      ELSE pc' = "realtime" /\ skipCheckpoint' /\ ~needCatchup'
          /\ (/\ pc = "realtime" /\ ~needCatchup /\ h_quiet
              /\ SourceUndefined(maxTimeSource)
              /\ pc' # pc /\ lastResult' \notin {"error", "crashed"}) =>
                /\ pc' = "idle" /\ lastResult' = "ok" /\ ~h_countZero'
                /\ target' = target /\ completed' = completed]_vars
    /\ [](pc = "catchup" => ~SourceUndefined(maxTimeSource))

\* C32, its case: the probes found a defined target and a source that holds
\* rows but fails the validity predicate, and the invocation stands at its
\* realtime step with the source unchanged.
C32_Witness ==
    /\ pc = "realtime" /\ ~needCatchup /\ h_quiet
    /\ source # {} /\ SourceUndefined(maxTimeSource)
    /\ TimeValid(maxTimeTarget, Now + Day)

\* C33: the status of a table changes only in its worker: to in_progress
\* before the syncer is built, to completed at the return of a run that
\* succeeded.  While the syncer is built or runs the status is in_progress;
\* it stays so when the construction or the run returned an error (the
\* signal of an empty source included); after SyncAllTablesWithSmartMode
\* returned, an enabled table is completed iff its run of that cycle
\* succeeded.
C33_StatusProtocol ==
    /\ [][\A t \in Tables :
              status'[t] # status[t] =>
                 \/ /\ status'[t] = "in_progress"
                    /\ wpc[t] = "acquired" /\ wpc'[t] = "constructing"
                 \/ /\ status'[t] = "completed"
                    /\ wpc[t] = "running" /\ wresult'[t] = "ok"]_vars
    /\ [](\A t \in Tables :
              /\ wpc[t] \in {"constructing", "running"} => status[t] = "in_progress"
              /\ wpc[t] \in {"exiting", "done"} =>
                    /\ status[t] = "completed" <=> wresult[t] = "ok"
                    /\ wresult[t] \in {"error", "empty"} => status[t] = "in_progress")
    /\ []((coordPc = "idle" /\ runResult \in {"ok", "failed"}) =>
              \A t \in enabled : status[t] = "completed" <=> wresult[t] = "ok")

\* C33, its case: a cycle has returned in which one table succeeded, one
\* failed and one was skipped for its empty source.
C33_Witness ==
    /\ coordPc = "idle" /\ runResult = "failed"
    /\ \E t, u, v \in enabled :
          /\ wresult[t] = "ok" /\ status[t] = "completed"
          /\ wresult[u] = "error" /\ status[u] = "in_progress"
          /\ wresult[v] = "empty" /\ status[v] = "in_progress"

\* The configured columns the schema of table t lacks: those of the source
\* schema, which NewUniversalSyncer looks at first, else those of the target.
MissingColumns(t) == IF srcMissing[t] # {} THEN srcMissing[t] ELSE tgtMissing[t]

\* C34: a table whose schema lacks the configured time column or a dedup
\* column fails: its worker ends with an error that names the missing
\* columns (unless the detection of the schema itself failed) and is sent
\* to the error channel, the syncer of a table whose
\* source schema lacks them never runs, the cycle returns the failure, and
\* every other enabled table has run.
C34_SchemaMismatchFatal ==
    \A t \in enabled :
        MissingColumns(t) # {} =>
            /\ srcMissing[t] # {} => wpc[t] # "running"
            /\ wpc[t] \in {"exiting", "done"} =>
                  /\ wresult[t] = "error"
                  /\ t \in errChan
                  /\ werr[t].kind # "detect" => werr[t].names = MissingColumns(t)
            /\ (coordPc = "idle" /\ runResult # "none") =>
                  /\ runResult = "failed"
                  /\ runError.count >= 1
                  /\ \A u \in enabled : wresult[u] # "none"

\* The source rows with time in the segment of the running syncSegment.
InSegmentRows == {k \in source : InSegment(rowTime[k], segment)}

\* C35: syncSegment starts from the keys the target holds in [start, end);
\* it adds copies to the target only of source rows within [start, end)
\* whose key is not among those keys; when it returns success it has read
\* every source row of [start, end), has inserted exactly those whose key was
\* not among the existing keys, and returns their number.
C35_SegmentResult ==
    /\ [][/\ (bpc \in {"idle", "returned"} /\ bpc' = "read" /\ strategy' = "segment") =>
                existingKeys' = FetchExistingKeys(segment')
          /\ strategy = "segment" =>
                \A k \in Keys :
                    target'[k] # target[k] =>
                        /\ k \in InSegmentRows
                        /\ BuildKey(k) \notin existingKeys]_vars
    /\ []((strategy = "segment" /\ bpc = "returned" /\ bResult = "ok") =>
              /\ rows = <<>>
              /\ h_committed = {k \in InSegmentRows : BuildKey(k) \notin existingKeys}
              /\ totalInserted = Cardinality(h_committed)
              /\ \A k \in h_committed : target[k] > 0)

\* C35, its case: a syncSegment has returned success after it inserted a row,
\* dropped a row whose key the target held, and left alone a row outside
\* the segment.
C35_Witness ==
    /\ strategy = "segment" /\ bpc = "returned" /\ bResult = "ok"
    /\ h_committed # {}
    /\ \E k \in InSegmentRows : BuildKey(k) \in existingKeys
    /\ \E k \in source : ~InSegment(rowTime[k], segment) /\ target[k] = 0

\* The workers that hold a token of the semaphore.
SlotHolders == {t \in Tables : wpc[t] \in {"acquired", "constructing", "running", "exiting"}}

\* C36: a started SyncAllTablesWithSmartMode returns, and every worker that
\* waits for the semaphore ends; the tokens in the semaphore are those of
\* the workers between their acquire and their release, so none is left
\* when the workers have ended; the errors sent fit the buffer of the error
\* channel; the channel is closed and drained only when every worker of an
\* enabled table has ended.
C36_RunAllReturns ==
    /\ (coordPc \in {"spawning", "waiting"}) ~>
           (coordPc = "idle" /\ runResult \in {"ok", "failed"})
    /\ \A t \in Tables : (wpc[t] = "waiting") ~> (wpc[t] = "done")
    /\ [](/\ semaphore = Cardinality(SlotHolders)
          /\ Cardinality(errChan) <= Cardinality(enabled)
          /\ errChan \subseteq enabled)
    /\ [][(coordPc = "waiting" /\ coordPc' = "idle") =>
              /\ \A t \in enabled : wpc[t] = "done"
              /\ semaphore = 0]_vars

\* C36, its case: a cycle over more enabled tables than the semaphore has
\* tokens has returned.
C36_Witness ==
    /\ coordPc = "idle" /\ runResult \in {"ok", "failed"}
    /\ Cardinality(enabled) > MaxConcurrency
    /\ \A t \in enabled : wpc[t] = "done"
    /\ semaphore = 0

\* C37: two rows whose dedup-column values differ in a field never get the
\* same dedup key.
C37_KeyInjective ==
    (keyPc = "built" /\ dedupRowA # dedupRowB) => dedupKeyA # dedupKeyB

\* The sum of the record counts of the segments S.
RECURSIVE SumOfCounts(_)
SumOfCounts(S) ==
    IF S = {} THEN 0
    ELSE LET seg == CHOOSE x \in S : TRUE
         IN  RecordCount(seg) + SumOfCounts(S \ {seg})

\* C38: records_synced of every table is never negative and equals the sum
\* of the record counts of its completed segments, in memory and in the
\* state file; within a process it changes only in the MarkSegmentCompleted
\* of the table and in ClearState, and it gets smaller only in ClearState; a
\* new process starts from the value of the state file, which never gets
\* smaller.
C38_RecordsSynced ==
    /\ [](\A t \in Workers :
              /\ mem.tables[t].records >= 0
              /\ mem.tables[t].records = SumOfCounts(mem.tables[t].segs)
              /\ LoadState(file).tables[t].records =
                     SumOfCounts(LoadState(file).tables[t].segs))
    /\ [][\A t \in Workers :
              /\ (mem'.tables[t].records # mem.tables[t].records /\ crashes' = crashes)
                    => \/ tpc[t] = "mutate" /\ wop[t] = "segment" /\ tpc'[t] = "write"
                       \/ tpc[MainThread] = "reset"
              /\ (mem'.tables[t].records < mem.tables[t].records /\ crashes' = crashes)
                    => tpc[MainThread] = "reset"
              /\ crashes' # crashes
                    => mem'.tables[t].records = LoadState(file).tables[t].records
              /\ LoadState(file').tables[t].records < LoadState(file).tables[t].records
                    => \E th \in Threads : tpc[th] = "rename" /\ wop[th] = "clear"]_vars

\* C38, its case: a worker has marked all its segments, the count of the
\* table is the sum of their record counts, and the state file is behind
\* the memory by a segment whose save failed.
C38_Witness ==
    \E t \in Workers :
        /\ mem.tables[t].segs = 1..MaxStoreSegs
        /\ mem.tables[t].records = SumOfCounts(1..MaxStoreSegs)
        /\ mem.tables[t].records > RecordCount(1)
        /\ LoadState(file).tables[t].records < mem.tables[t].records
        /\ tpc[t] = "idle"

\* C39: the document a Mark* has renamed into place loads, in a new
\* StateManager, to the status, the records_synced and the
\* IsSegmentCompleted answers the memory had at that save; the state file
\* changes in no other step, a new process has what the state file loads to,
\* and no state file loads to a document without tables.
C39_CheckpointRoundTrip ==
    /\ [](/\ file = h_lastRenamed
          /\ \A t \in Workers : \A seg \in 1..MaxStoreSegs :
                ~SegmentCompletedIn(LoadState(AbsentFile), t, seg)
          /\ \A t \in Workers : /\ LoadState(AbsentFile).tables[t].status = "none"
                                /\ LoadState(AbsentFile).tables[t].records = 0)
    /\ [][/\ file' # file
             => /\ \E th \in Threads : tpc[th] = "rename" /\ tpc'[th] = "unlock"
                /\ \A t \in Workers :
                      /\ LoadState(file').tables[t].status = mem.tables[t].status
                      /\ LoadState(file').tables[t].records = mem.tables[t].records
                      /\ \A seg \in 1..MaxStoreSegs :
                            SegmentCompletedIn(LoadState(file'), t, seg)
                               <=> SegmentCompletedIn(mem, t, seg)
          /\ crashes' # crashes
             => \A t \in Workers :
                   /\ mem'.tables[t].status = LoadState(h_lastRenamed).tables[t].status
                   /\ mem'.tables[t].records = LoadState(h_lastRenamed).tables[t].records
                   /\ \A seg \in 1..MaxStoreSegs :
                         SegmentCompletedIn(mem', t, seg)
                            <=> SegmentCompletedIn(LoadState(h_lastRenamed), t, seg)]_vars

\* C39, its case: the process was started again after a save of this run
\* that put a segment with records into the state file, and the new process
\* finds the segment completed.
C39_Witness ==
    \E t \in Workers :
        /\ crashes > 0
        /\ file # DocFile(OldState) /\ file.kind = "doc"
        /\ tpc[t] = "idle" /\ wop[t] = "none"
        /\ SegmentCompletedIn(mem, t, MaxStoreSegs)
        /\ mem.tables[t].records = SumOfCounts(1..MaxStoreSegs)
        /\ mem.tables[t].status = "in_progress"

====
